---- MODULE Spec2Model ----
(***************************************************************************)
(* The user store (UserRepository), the orchestrator (UserService), the    *)
(* entity factory and validation (UserModel) and the connection registry   *)
(* (WebSocketManager) of the Elysia user management API.                   *)
(*                                                                         *)
(* Strings are TLA+ strings; their characters are read with SubSeq.  A     *)
(* JavaScript object is a record whose DOMAIN is the set of keys the       *)
(* object has, so "key is undefined" is "key is not in the DOMAIN".        *)
(* In Spec, SpecPage, SpecRegistry, SpecSockets, SpecFaults and SpecCopy    *)
(* every call runs to completion in one step; in SpecAsync calls are        *)
(* suspended at their await points and resumed one continuation at a time.  *)
(***************************************************************************)
EXTENDS Integers, Sequences, FiniteSets, TLC

VARIABLES
    users,        \* UserRepository.users: the array of live User records
    connections,  \* WebSocketManager.connections: a Set, kept in insertion order
    now,          \* the wall clock that new Date() reads
    uuidCount,    \* how many ids crypto.randomUUID() has handed out
    deletedIds,   \* history: the ids for which deleteUser returned success
    call,         \* the last call made: its operation and arguments
    response,     \* what that call returned
    events,       \* the UserEvents that call passed to WebSocketManager.broadcast
    sends,        \* the ws.send attempts of that call, in order
    trace,        \* the collaborator calls that call made, in order
    thrown,       \* the errors those collaborator calls threw into the service
    http,         \* the Response UserController built from what that call returned
    refs,         \* for each User that call returned: the position of the store
                  \* record it is the same object as, 0 for an object of its own
    closes,       \* the ws.close attempts of that call, in order
    tasks         \* the calls in flight: each suspended at an await, or settled

vars == <<users, connections, now, uuidCount, deletedIds, call, response, events, sends,
          trace, thrown, http, refs, closes, tasks>>

---------------------------------------------------------------------------
(* Bounds of the model *)

\* createUser calls that reach UserModel.create (ids drawn from randomUUID)
MaxCreates == 2
\* calls started while others are in flight
MaxTasks == 2
\* the largest value the clock reaches
MaxClock == 1

(* Program constants *)

\* the largest page size getUsersPaginated accepts
MaxLimit == 100
\* the smallest trimmed length of a valid name
MinNameLen == 2

\* an object literal with no keys
EmptyDto == [f \in {} |-> ""]

(* Inputs *)

Sinks == {"ws1", "ws2"}
\* the sockets of the registry's own operations
Sockets == {"ws1", "ws2", "ws3"}
InputNames == {"", "Ann Lee", " A"}
InputEmails == {"", "john@example.com", "ann@x.com", "John@example.com", "a@b"}
InputIds == {"2", "99", " "}
Patches ==
    { EmptyDto,
      [name |-> "Ann Lee"],
      [name |-> " A"],
      [email |-> "john@example.com"],
      [email |-> "ann@x.com"],
      [email |-> "a@b"],
      [name |-> "Ann Lee", email |-> "John@example.com"] }
Offsets == {-1, 0, 2, 7}
Limits == {0, 1, 2, MaxLimit, MaxLimit + 1}

---------------------------------------------------------------------------
(* JavaScript values *)

\* null, as returned by findById, findByEmail, update and delete
Null == <<>>

CharAt(s, i) == SubSeq(s, i, i)

\* the characters \s matches and String.prototype.trim strips
WhiteSpace == {" ", "\t", "\n", "\r"}

\* s.trim(), computed character by character
TrimChars(s) ==
    LET keep == {i \in 1..Len(s) : CharAt(s, i) \notin WhiteSpace}
        first == CHOOSE i \in keep : \A j \in keep : i <= j
        last == CHOOSE i \in keep : \A j \in keep : i >= j
    IN  IF keep = {} THEN "" ELSE SubSeq(s, first, last)

\* an id generator that hands out the same value at every call
RandomUUIDRepeating(k) == "uuid-1"

\* the id the k-th call of crypto.randomUUID() returns: a fresh value each call
RandomUUID(k) == "uuid-" \o ToString(k)

\* the strings callers pass in; what trim and the email pattern yield for them
\* is computed once (KnownTrim, KnownValidEmails) and looked up afterwards
KnownStrings ==
    InputNames \cup InputEmails \cup InputIds
    \cup {RandomUUID(k) : k \in 1..MaxCreates}

KnownTrim == [s \in KnownStrings |-> TrimChars(s)]

\* s.trim()
Trim(s) == IF s \in KnownStrings THEN KnownTrim[s] ELSE TrimChars(s)

\* !s : the empty string is the only falsy string
Falsy(s) == s = ""

\* s.includes(sub)
Includes(s, sub) ==
    \E i \in 1..(Len(s) - Len(sub) + 1) : SubSeq(s, i, i + Len(sub) - 1) = sub

\* strs.join(sep)
RECURSIVE Join(_, _)
Join(strs, sep) ==
    IF Len(strs) = 0 THEN ""
    ELSE IF Len(strs) = 1 THEN strs[1]
    ELSE strs[1] \o sep \o Join(Tail(strs), sep)

\* array.slice(start, end), with 0-based start and end as JavaScript counts them
Slice(arr, start, end) ==
    LET len == Len(arr)
        k == IF start < 0 THEN (IF len + start > 0 THEN len + start ELSE 0)
             ELSE (IF start < len THEN start ELSE len)
        final == IF end < 0 THEN (IF len + end > 0 THEN len + end ELSE 0)
                 ELSE (IF end < len THEN end ELSE len)
    IN  SubSeq(arr, k + 1, final)

\* {...a, ...b}
Spread(a, b) ==
    [f \in DOMAIN a \cup DOMAIN b |-> IF f \in DOMAIN b THEN b[f] ELSE a[f]]

\* removal that moves the last element into the freed position
SpliceSwappingLast(arr, index) ==
    IF index = Len(arr) THEN SubSeq(arr, 1, Len(arr) - 1)
    ELSE SubSeq([arr EXCEPT ![index] = arr[Len(arr)]], 1, Len(arr) - 1)

\* the array without the element at position index (splice(index, 1))
Splice(arr, index) ==
    SubSeq(arr, 1, index - 1) \o SubSeq(arr, index + 1, Len(arr))

---------------------------------------------------------------------------
(* UserModel *)

UserModelCreate(dto, id, t1, t2) ==
    [id |-> id, name |-> dto.name, email |-> dto.email, createdAt |-> t1, updatedAt |-> t2]

\* the merge with the spreads in the other order: { ...updateDto, ...existingUser }
UserModelUpdateExistingWins(existingUser, updateDto, t) ==
    Spread(Spread(updateDto, existingUser), [updatedAt |-> t])

\* { ...existingUser, ...updateDto, updatedAt: new Date() }
UserModelUpdate(existingUser, updateDto, t) ==
    Spread(Spread(existingUser, updateDto), [updatedAt |-> t])

\* [^\s@]+ matches the characters a..b of s
NoSpaceNoAt(s, a, b) ==
    /\ a <= b
    /\ \A k \in a..b : CharAt(s, k) \notin (WhiteSpace \cup {"@"})

\* /^[^\s@]+@[^\s@]+\.[^\s@]+$/.test(email), computed character by character
EmailRegexTest(email) ==
    \E i, j \in 1..Len(email) :
        /\ i < j
        /\ CharAt(email, i) = "@"
        /\ CharAt(email, j) = "."
        /\ NoSpaceNoAt(email, 1, i - 1)
        /\ NoSpaceNoAt(email, i + 1, j - 1)
        /\ NoSpaceNoAt(email, j + 1, Len(email))

KnownValidEmails == {e \in KnownStrings : EmailRegexTest(e)}

\* isValidEmail(email)
IsValidEmail(email) ==
    IF email \in KnownStrings THEN email \in KnownValidEmails ELSE EmailRegexTest(email)

\* isValidName(name)
IsValidName(name) == Len(Trim(name)) >= MinNameLen

ValidateCreateDto(dto) ==
    (IF Falsy(dto.name) \/ ~IsValidName(dto.name)
        THEN <<"Name must be at least 2 characters long">> ELSE <<>>)
    \o
    (IF Falsy(dto.email) \/ ~IsValidEmail(dto.email)
        THEN <<"Valid email is required">> ELSE <<>>)

ValidateUpdateDto(dto) ==
    (IF "name" \in DOMAIN dto /\ ~IsValidName(dto.name)
        THEN <<"Name must be at least 2 characters long">> ELSE <<>>)
    \o
    (IF "email" \in DOMAIN dto /\ ~IsValidEmail(dto.email)
        THEN <<"Valid email is required">> ELSE <<>>)

---------------------------------------------------------------------------
(* UserRepository: each operation on the array us *)

\* the constructor's sample data; t holds its six clock readings
SeedUsers(t) ==
    << [id |-> "1", name |-> "John Doe", email |-> "john@example.com",
        createdAt |-> t[1], updatedAt |-> t[2]],
       [id |-> "2", name |-> "Jane Smith", email |-> "jane@example.com",
        createdAt |-> t[3], updatedAt |-> t[4]],
       [id |-> "3", name |-> "Alex Johnson", email |-> "alex@example.com",
        createdAt |-> t[5], updatedAt |-> t[6]] >>

\* users.findIndex(user => user.id === id), 1-based; 0 stands for -1
FindIndexById(us, id) ==
    LET hits == {i \in 1..Len(us) : "id" \in DOMAIN us[i] /\ us[i].id = id}
    IN  IF hits = {} THEN 0 ELSE CHOOSE i \in hits : \A j \in hits : i <= j

FindAll(us) == us

FindById(us, id) ==
    LET index == FindIndexById(us, id)
    IN  IF index = 0 THEN Null ELSE us[index]

FindByEmail(us, email) ==
    LET hits == {i \in 1..Len(us) : us[i].email = email}
    IN  IF hits = {} THEN Null ELSE us[CHOOSE i \in hits : \A j \in hits : i <= j]

\* Create without its duplicate check
CreateUnchecked(us, createDto, id, t1, t2, t3) ==
    LET newUser == UserModelCreate(createDto, id, t1, t2)
    IN  [threw |-> FALSE, message |-> "",
         users |-> Append(us, newUser),
         value |-> [newUser EXCEPT !.updatedAt = t3]]

\* Create that returns the new user without storing it
CreateNoPush(us, createDto, id, t1, t2, t3) ==
    IF \E i \in 1..Len(us) : us[i].email = createDto.email
    THEN [threw |-> TRUE, message |-> "User with this email already exists",
          users |-> us, value |-> Null]
    ELSE [threw |-> FALSE, message |-> "", users |-> us,
          value |-> [UserModelCreate(createDto, id, t1, t2) EXCEPT !.updatedAt = t3]]

\* create from its await on: existingUser is what findByEmail resolved to, us
\* the store when create resumes
CreateResume(us, existingUser, createDto, id, t1, t2, t3) ==
    IF existingUser # Null
    THEN [threw |-> TRUE, message |-> "User with this email already exists",
          users |-> us, value |-> Null]
    ELSE LET newUser == UserModelCreate(createDto, id, t1, t2)
         IN  [threw |-> FALSE, message |-> "",
              users |-> Append(us, newUser),
              value |-> [newUser EXCEPT !.updatedAt = t3]]

\* create with nothing running between findByEmail and the rest
\* (t1, t2 are the clock readings of UserModel.create, t3 that of the return)
Create(us, createDto, id, t1, t2, t3) ==
    CreateResume(us, FindByEmail(us, createDto.email), createDto, id, t1, t2, t3)

\* Update without its duplicate check
UpdateUnchecked(us, id, updateDto, t1, t2) ==
    LET index == FindIndexById(us, id)
    IN  IF index = 0
        THEN [threw |-> FALSE, message |-> "", users |-> us, value |-> Null]
        ELSE LET updatedUser == UserModelUpdate(us[index], updateDto, t1)
             IN  [threw |-> FALSE, message |-> "",
                  users |-> [us EXCEPT ![index] = updatedUser],
                  value |-> [updatedUser EXCEPT !.updatedAt = t2]]

\* Update whose duplicate check does not exempt the user being updated
UpdateConflictWithSelf(us, id, updateDto, t1, t2) ==
    LET index == FindIndexById(us, id)
        checksEmail == "email" \in DOMAIN updateDto /\ ~Falsy(updateDto.email)
    IN  IF index = 0
        THEN [threw |-> FALSE, message |-> "", users |-> us, value |-> Null]
        ELSE IF checksEmail /\ FindByEmail(us, updateDto.email) # Null
        THEN [threw |-> TRUE, message |-> "User with this email already exists",
              users |-> us, value |-> Null]
        ELSE LET updatedUser == UserModelUpdate(us[index], updateDto, t1)
             IN  [threw |-> FALSE, message |-> "",
                  users |-> [us EXCEPT ![index] = updatedUser],
                  value |-> [updatedUser EXCEPT !.updatedAt = t2]]

\* Update that writes the record before it checks the email
UpdateWriteFirst(us, id, updateDto, t1, t2) ==
    LET index == FindIndexById(us, id)
        checksEmail == "email" \in DOMAIN updateDto /\ ~Falsy(updateDto.email)
        existingUser == FindByEmail(us, updateDto.email)
    IN  IF index = 0
        THEN [threw |-> FALSE, message |-> "", users |-> us, value |-> Null]
        ELSE LET updatedUser == UserModelUpdate(us[index], updateDto, t1)
                 written == [us EXCEPT ![index] = updatedUser]
             IN  IF checksEmail /\ existingUser # Null /\ existingUser.id # id
                 THEN [threw |-> TRUE, message |-> "User with this email already exists",
                       users |-> written, value |-> Null]
                 ELSE [threw |-> FALSE, message |-> "", users |-> written,
                       value |-> [updatedUser EXCEPT !.updatedAt = t2]]

\* if (updateDto.email): the patch names an email that is not empty
ChecksEmail(updateDto) == "email" \in DOMAIN updateDto /\ ~Falsy(updateDto.email)

\* update from the end of its email check on: index is the position findIndex
\* found, existingUser what findByEmail resolved to (Null when the patch has no
\* email), us the store when update goes on.  this.users[index] is undefined
\* when the store has become shorter than index, and spreads to nothing; the
\* assignment to the position just past the end appends (the calls modelled
\* remove at most one record while an update is suspended).
UpdateResume(us, index, existingUser, id, updateDto, t1, t2) ==
    IF existingUser # Null /\ ("id" \notin DOMAIN existingUser \/ existingUser.id # id)
    THEN [threw |-> TRUE, message |-> "User with this email already exists",
          users |-> us, value |-> Null]
    ELSE LET atIndex == IF index <= Len(us) THEN us[index] ELSE EmptyDto
             updatedUser == UserModelUpdate(atIndex, updateDto, t1)
         IN  [threw |-> FALSE, message |-> "",
              users |-> IF index <= Len(us) THEN [us EXCEPT ![index] = updatedUser]
                        ELSE Append(us, updatedUser),
              value |-> Spread(updatedUser, [updatedAt |-> t2])]

\* update with nothing running between findByEmail and the rest
\* (t1 is the clock reading of UserModel.update, t2 that of the return)
Update(us, id, updateDto, t1, t2) ==
    LET index == FindIndexById(us, id)
    IN  IF index = 0
        THEN [threw |-> FALSE, message |-> "", users |-> us, value |-> Null]
        ELSE UpdateResume(us, index,
                          IF ChecksEmail(updateDto)
                             THEN FindByEmail(us, updateDto.email) ELSE Null,
                          id, updateDto, t1, t2)

\* Delete that removes nothing (splice(index, 0))
DeleteNoSplice(us, id, t1) ==
    LET index == FindIndexById(us, id)
    IN  IF index = 0
        THEN [threw |-> FALSE, message |-> "", users |-> us, value |-> Null]
        ELSE [threw |-> FALSE, message |-> "", users |-> us,
              value |-> [us[index] EXCEPT !.updatedAt = t1]]

\* delete: t1 is the clock reading of the return
Delete(us, id, t1) ==
    LET index == FindIndexById(us, id)
    IN  IF index = 0
        THEN [threw |-> FALSE, message |-> "", users |-> us, value |-> Null]
        ELSE [threw |-> FALSE, message |-> "",
              users |-> Splice(us, index),
              value |-> [us[index] EXCEPT !.updatedAt = t1]]

Exists(us, id) == \E i \in 1..Len(us) : us[i].id = id

Count(us) == Len(us)

\* findPaginated that takes limit for the end index (slice(offset, limit))
FindPaginatedNoOffset(us, offset, limit) == Slice(us, offset, limit)

FindPaginated(us, offset, limit) == Slice(us, offset, offset + limit)

(* Object identity of what the repository returns: for each returned User, the *)
(* position of the store record it is the same object as, or 0 when it is an   *)
(* object of its own.                                                          *)

\* [...this.users]: a new array holding the store's own objects
FindAllRefs(us) == [k \in 1..Len(us) |-> k]

\* user ? { ...user } : null, and { ...user, updatedAt: new Date() }
CopyRefs(value) == IF value = Null THEN <<>> ELSE <<0>>

\* .map((user) => ({ ...user }))
FindPaginatedRefs(page) == [k \in 1..Len(page) |-> 0]

---------------------------------------------------------------------------
(* WebSocketManager: each operation on the insertion-ordered set conns *)

Members(conns) == {conns[i] : i \in 1..Len(conns)}

\* an add that appends whether or not the value is a member, as Array.push does
SetAddAppending(conns, ws) == Append(conns, ws)

\* Set.add: a member keeps its place, a new value goes last
SetAdd(conns, ws) == IF ws \in Members(conns) THEN conns ELSE Append(conns, ws)

\* Set.delete
SetDelete(conns, ws) == SelectSeq(conns, LAMBDA c : c # ws)

\* the loop whose catch logs the failed send and keeps the sink
RECURSIVE SendToEachKeeping(_, _, _, _)
SendToEachKeeping(conns, i, failing, sent) ==
    IF i > Len(conns) THEN [connections |-> conns, sends |-> sent]
    ELSE SendToEachKeeping(conns, i + 1, failing,
                           Append(sent, [ws |-> conns[i], ok |-> conns[i] \notin failing]))

\* connections.forEach(ws => { try { ws.send(message) } catch { connections.delete(ws) } })
\* from position i on; failing holds the sinks whose send throws.  Deleting the
\* entry being visited moves the next entry into its position.
RECURSIVE SendToEach(_, _, _, _)
SendToEach(conns, i, failing, sent) ==
    IF i > Len(conns) THEN [connections |-> conns, sends |-> sent]
    ELSE IF conns[i] \in failing
    THEN SendToEach(SetDelete(conns, conns[i]), i, failing,
                    Append(sent, [ws |-> conns[i], ok |-> FALSE]))
    ELSE SendToEach(conns, i + 1, failing,
                    Append(sent, [ws |-> conns[i], ok |-> TRUE]))

\* the loop over an array copy indexed while entries are deleted: the entry after
\* a deleted one is skipped
RECURSIVE SendToEachSkipping(_, _, _, _)
SendToEachSkipping(conns, i, failing, sent) ==
    IF i > Len(conns) THEN [connections |-> conns, sends |-> sent]
    ELSE IF conns[i] \in failing
    THEN SendToEachSkipping(SetDelete(conns, conns[i]), i + 1, failing,
                            Append(sent, [ws |-> conns[i], ok |-> FALSE]))
    ELSE SendToEachSkipping(conns, i + 1, failing,
                            Append(sent, [ws |-> conns[i], ok |-> TRUE]))

\* the callee of broadcast that serializes the event; it throws when it is in
\* the set of failing callees
Stringify == "JSON.stringify"

\* what JSON.stringify throws
StringifyError ==
    [instanceofError |-> TRUE, message |-> "JSON.stringify cannot serialize cyclic structures."]

\* broadcast whose loop skips the sink after a failed one
BroadcastSkipping(conns, event, failing) ==
    IF Stringify \in failing
    THEN [connections |-> conns, sends |-> <<>>, received |-> <<event>>, threw |-> TRUE]
    ELSE IF Len(conns) = 0
    THEN [connections |-> conns, sends |-> <<>>, received |-> <<event>>, threw |-> FALSE]
    ELSE [received |-> <<event>>, threw |-> FALSE]
         @@ SendToEachSkipping(conns, 1, failing, <<>>)

\* broadcast(event); received is the event the call was handed, threw tells
\* whether the call raised (JSON.stringify is outside the loop's try)
Broadcast(conns, event, failing) ==
    IF Stringify \in failing
    THEN [connections |-> conns, sends |-> <<>>, received |-> <<event>>, threw |-> TRUE]
    ELSE IF Len(conns) = 0
    THEN [connections |-> conns, sends |-> <<>>, received |-> <<event>>, threw |-> FALSE]
    ELSE [received |-> <<event>>, threw |-> FALSE] @@ SendToEach(conns, 1, failing, <<>>)

GetConnectionCount(conns) == Len(conns)

\* broadcastMessage(message): the loop of broadcast over a ready-made string
BroadcastMessageRun(conns, message, failing) == SendToEach(conns, 1, failing, <<>>)

\* the loop of closeAllConnections that ends at the first close that throws
RECURSIVE CloseEachUntilThrow(_, _, _, _, _)
CloseEachUntilThrow(conns, i, failing, closing, closed) ==
    IF i > Len(conns) THEN [connections |-> conns, closes |-> closed, threw |-> FALSE]
    ELSE IF conns[i] \in failing
    THEN [connections |-> conns, threw |-> TRUE,
          closes |-> Append(closed, [ws |-> conns[i], ok |-> FALSE])]
    ELSE IF conns[i] \in closing
    THEN CloseEachUntilThrow(SetDelete(conns, conns[i]), i, failing, closing,
                             Append(closed, [ws |-> conns[i], ok |-> TRUE]))
    ELSE CloseEachUntilThrow(conns, i + 1, failing, closing,
                             Append(closed, [ws |-> conns[i], ok |-> TRUE]))

\* connections.forEach(ws => { try { ws.close() } catch { log } }) from position
\* i on.  failing holds the sinks whose close throws; closing holds the sinks
\* whose close runs the transport's close handler, removeConnection(ws), before
\* it returns, which moves the next entry into the position being visited.
RECURSIVE CloseEach(_, _, _, _, _)
CloseEach(conns, i, failing, closing, closed) ==
    IF i > Len(conns) THEN [connections |-> conns, closes |-> closed, threw |-> FALSE]
    ELSE IF conns[i] \in failing
    THEN CloseEach(conns, i + 1, failing, closing,
                   Append(closed, [ws |-> conns[i], ok |-> FALSE]))
    ELSE IF conns[i] \in closing
    THEN CloseEach(SetDelete(conns, conns[i]), i, failing, closing,
                   Append(closed, [ws |-> conns[i], ok |-> TRUE]))
    ELSE CloseEach(conns, i + 1, failing, closing,
                   Append(closed, [ws |-> conns[i], ok |-> TRUE]))

\* closeAllConnections(): the loop, then connections.clear() when the loop
\* did not raise
CloseAllConnectionsRun(conns, failing, closing) ==
    LET each == CloseEach(conns, 1, failing, closing, <<>>)
    IN  [connections |-> IF each.threw THEN each.connections ELSE <<>>,
         closes |-> each.closes, threw |-> each.threw]

\* sendToConnection that keeps the sink whose send threw
SendToConnectionKeeping(conns, ws, message, fails) ==
    [connections |-> conns, sends |-> <<[ws |-> ws, ok |-> ~fails]>>, value |-> ~fails]

\* sendToConnection(ws, message); fails tells whether ws.send throws
SendToConnectionRun(conns, ws, message, fails) ==
    IF fails
    THEN [connections |-> SetDelete(conns, ws),
          sends |-> <<[ws |-> ws, ok |-> FALSE]>>, value |-> FALSE]
    ELSE [connections |-> conns,
          sends |-> <<[ws |-> ws, ok |-> TRUE]>>, value |-> TRUE]

---------------------------------------------------------------------------
(* UserService: each operation as a run over the store us and the registry  *)
(* conns.  A run yields the store and registry it leaves, what it returns, *)
(* the events it passed to broadcast, the sends and collaborator calls it  *)
(* made, the errors its collaborators threw, the clock reading it ended on *)
(* and whether it drew a UUID.                                             *)
(* failing is the set of callees that throw during the run: sinks (their   *)
(* send throws), repository methods and JSON.stringify; fault is what a    *)
(* failing repository method throws.                                        *)

Run(us, conns, resp, evs, snds, tr, errs, clock, drew) ==
    [users |-> us, connections |-> conns, response |-> resp, events |-> evs,
     sends |-> snds, trace |-> tr, thrown |-> errs, now |-> clock, drewId |-> drew]

\* the error create and update throw for an email that is taken
DuplicateError ==
    [instanceofError |-> TRUE, message |-> "User with this email already exists"]

\* what a storage backend may throw: an Error, or a value that is no Error
Faults ==
    { [instanceofError |-> TRUE, message |-> "connect ECONNREFUSED 10.0.0.5:5432"],
      [instanceofError |-> FALSE, message |-> "pool exhausted"] }

\* the repository methods UserService calls
RepositoryCallees ==
    { "userRepository.findAll", "userRepository.findById", "userRepository.findByEmail",
      "userRepository.create", "userRepository.update", "userRepository.delete",
      "userRepository.findPaginated", "userRepository.count" }

\* a repository method that returned value and left the store us
Returned(us, value) == [threw |-> FALSE, message |-> "", users |-> us, value |-> value]

\* the outcome of calling callee: fault is thrown when callee fails, otherwise
\* the method's own result (the errors the method throws itself are Errors)
Called(callee, failing, fault, us, result) ==
    IF callee \in failing
    THEN [threw |-> TRUE, instanceofError |-> fault.instanceofError,
          message |-> fault.message, users |-> us, value |-> Null]
    ELSE [instanceofError |-> TRUE] @@ result

\* the error a call threw, as the catch block receives it
ErrorOf(callee, r) ==
    IF r.threw
    THEN <<[callee |-> callee, instanceofError |-> r.instanceofError, message |-> r.message]>>
    ELSE <<>>

\* !id?.trim()
IsBlank(id) == Falsy(Trim(id))

\* the error a throwing broadcast raises, as a catch block receives it
BroadcastError(sent) ==
    IF sent.threw
    THEN <<[callee |-> "wsManager.broadcast", instanceofError |-> TRUE,
            message |-> StringifyError.message]>>
    ELSE <<>>

\* broadcastUserEvent that returns early when nobody is connected
BroadcastUserEventSkipEmpty(conns, event, failing) ==
    IF Len(conns) = 0
    THEN [connections |-> conns, sends |-> <<>>, received |-> <<>>, threw |-> FALSE,
          caught |-> <<>>]
    ELSE LET sent == Broadcast(conns, event, failing)
         IN  [sent EXCEPT !.threw = FALSE] @@ [caught |-> BroadcastError(sent)]

\* broadcastUserEvent without its try/catch
BroadcastUserEventNoCatch(conns, event, failing) ==
    Broadcast(conns, event, failing) @@ [caught |-> <<>>]

\* broadcastUserEvent(event): broadcast inside try/catch; caught is the error the
\* catch block logged
BroadcastUserEvent(conns, event, failing) ==
    LET sent == Broadcast(conns, event, failing)
    IN  [sent EXCEPT !.threw = FALSE] @@ [caught |-> BroadcastError(sent)]

\* createUser from its await of userRepository.create on: created is what the
\* store call came to, us the store and clock the time when createUser resumes
CreateUserTail(us, conns, created, failing, clock) ==
    LET event == [type |-> "created", user |-> created.value]
        sent == BroadcastUserEvent(conns, event, failing)
    IN  IF created.threw
        THEN Run(us, conns,
                 [error |-> IF created.instanceofError THEN created.message
                            ELSE "Failed to create user"],
                 <<>>, <<>>, <<"userRepository.create">>,
                 ErrorOf("userRepository.create", created), clock, FALSE)
        ELSE IF sent.threw
        THEN Run(us, sent.connections, [error |-> StringifyError.message],
                 sent.received, sent.sends,
                 <<"userRepository.create", "wsManager.broadcast">>,
                 BroadcastError(sent), clock, TRUE)
        ELSE Run(us, sent.connections,
                 [data |-> created.value, message |-> "User created successfully"],
                 sent.received, sent.sends,
                 <<"userRepository.create", "wsManager.broadcast">>, sent.caught,
                 clock, TRUE)

\* createUser(createDto); t holds the three clock readings of a store create
CreateUserRun(us, conns, createDto, id, t, failing, fault, clock) ==
    LET validationErrors == ValidateCreateDto(createDto)
        created == Called("userRepository.create", failing, fault, us,
                          Create(us, createDto, id, t[1], t[2], t[3]))
    IN  IF Len(validationErrors) > 0
        THEN Run(us, conns, [error |-> Join(validationErrors, ", ")],
                 <<>>, <<>>, <<>>, <<>>, clock, FALSE)
        ELSE CreateUserTail(created.users, conns, created, failing,
                            IF created.threw THEN clock ELSE t[3])

\* updateUser from its await of userRepository.update on: updated is what the
\* store call came to, us the store and clock the time when updateUser resumes
UpdateUserTail(us, conns, updated, failing, clock) ==
    LET event == [type |-> "updated", user |-> updated.value]
        sent == BroadcastUserEvent(conns, event, failing)
    IN  IF updated.threw
        THEN Run(us, conns,
                 [error |-> IF updated.instanceofError THEN updated.message
                            ELSE "Failed to update user"],
                 <<>>, <<>>,
                 <<"userRepository.findById", "userRepository.update">>,
                 ErrorOf("userRepository.update", updated), clock, FALSE)
        ELSE IF updated.value = Null
        THEN Run(us, conns, [error |-> "Failed to update user"], <<>>, <<>>,
                 <<"userRepository.findById", "userRepository.update">>, <<>>,
                 clock, FALSE)
        ELSE IF sent.threw
        THEN Run(us, sent.connections, [error |-> StringifyError.message],
                 sent.received, sent.sends,
                 <<"userRepository.findById", "userRepository.update",
                   "wsManager.broadcast">>, BroadcastError(sent), clock, FALSE)
        ELSE Run(us, sent.connections,
                 [data |-> updated.value, message |-> "User updated successfully"],
                 sent.received, sent.sends,
                 <<"userRepository.findById", "userRepository.update",
                   "wsManager.broadcast">>, sent.caught, clock, FALSE)

\* updateUser up to its call of userRepository.update: the run it returns with
\* before that call, or Null when it goes on to make the call; found is what
\* findById came to
UpdateUserHead(us, conns, id, updateDto, found, clock) ==
    LET validationErrors == ValidateUpdateDto(updateDto)
    IN  IF IsBlank(id)
        THEN Run(us, conns, [error |-> "User ID is required"],
                 <<>>, <<>>, <<>>, <<>>, clock, FALSE)
        ELSE IF Len(validationErrors) > 0
        THEN Run(us, conns, [error |-> Join(validationErrors, ", ")],
                 <<>>, <<>>, <<>>, <<>>, clock, FALSE)
        ELSE IF found.threw
        THEN Run(us, conns,
                 [error |-> IF found.instanceofError THEN found.message
                            ELSE "Failed to update user"],
                 <<>>, <<>>, <<"userRepository.findById">>,
                 ErrorOf("userRepository.findById", found), clock, FALSE)
        ELSE IF found.value = Null
        THEN Run(us, conns, [error |-> "User not found"],
                 <<>>, <<>>, <<"userRepository.findById">>, <<>>, clock, FALSE)
        ELSE Null

\* updateUser(id, updateDto); t holds the two clock readings of a store update
UpdateUserRun(us, conns, id, updateDto, t, failing, fault, clock) ==
    LET found == Called("userRepository.findById", failing, fault, us,
                        Returned(us, FindById(us, id)))
        head == UpdateUserHead(us, conns, id, updateDto, found, clock)
        updated == Called("userRepository.update", failing, fault, us,
                          Update(us, id, updateDto, t[1], t[2]))
    IN  IF head # Null THEN head
        ELSE UpdateUserTail(updated.users, conns, updated, failing,
                            IF updated.threw \/ updated.value = Null THEN clock ELSE t[2])

\* deleteUser that does not test what delete returned before it broadcasts
DeleteUserTailUnchecked(us, conns, deleted, failing, clock) ==
    LET event == [type |-> "deleted", user |-> deleted.value]
        sent == BroadcastUserEvent(conns, event, failing)
    IN  Run(us, sent.connections,
            [data |-> deleted.value, message |-> "User deleted successfully"],
            sent.received, sent.sends,
            <<"userRepository.findById", "userRepository.delete",
              "wsManager.broadcast">>, sent.caught, clock, FALSE)

\* deleteUser from the point where its await of userRepository.delete settles:
\* deleted is what the call came to, us the collection it left, clock the time
\* of its last clock reading
DeleteUserTail(us, conns, deleted, failing, clock) ==
    LET event == [type |-> "deleted", user |-> deleted.value]
        sent == BroadcastUserEvent(conns, event, failing)
    IN  IF deleted.threw
        THEN Run(us, conns, [error |-> "Failed to delete user"], <<>>, <<>>,
                 <<"userRepository.findById", "userRepository.delete">>,
                 ErrorOf("userRepository.delete", deleted), clock, FALSE)
        ELSE IF deleted.value = Null
        THEN Run(us, conns, [error |-> "Failed to delete user"], <<>>, <<>>,
                 <<"userRepository.findById", "userRepository.delete">>, <<>>,
                 clock, FALSE)
        ELSE IF sent.threw
        THEN Run(us, sent.connections, [error |-> "Failed to delete user"],
                 sent.received, sent.sends,
                 <<"userRepository.findById", "userRepository.delete",
                   "wsManager.broadcast">>, BroadcastError(sent), clock, FALSE)
        ELSE Run(us, sent.connections,
                 [data |-> deleted.value, message |-> "User deleted successfully"],
                 sent.received, sent.sends,
                 <<"userRepository.findById", "userRepository.delete",
                   "wsManager.broadcast">>, sent.caught, clock, FALSE)

\* deleteUser up to its call of userRepository.delete: the run it returns with
\* before that call, or Null when it goes on to make the call; found is what
\* findById came to
DeleteUserHead(us, conns, id, found, clock) ==
    IF IsBlank(id)
    THEN Run(us, conns, [error |-> "User ID is required"],
             <<>>, <<>>, <<>>, <<>>, clock, FALSE)
    ELSE IF found.threw
    THEN Run(us, conns, [error |-> "Failed to delete user"],
             <<>>, <<>>, <<"userRepository.findById">>,
             ErrorOf("userRepository.findById", found), clock, FALSE)
    ELSE IF found.value = Null
    THEN Run(us, conns, [error |-> "User not found"],
             <<>>, <<>>, <<"userRepository.findById">>, <<>>, clock, FALSE)
    ELSE Null

\* deleteUser(id); t holds the clock reading of a store delete
DeleteUserRun(us, conns, id, t, failing, fault, clock) ==
    LET found == Called("userRepository.findById", failing, fault, us,
                        Returned(us, FindById(us, id)))
        head == DeleteUserHead(us, conns, id, found, clock)
        deleted == Called("userRepository.delete", failing, fault, us,
                          Delete(us, id, t[1]))
    IN  IF head # Null THEN head
        ELSE DeleteUserTail(deleted.users, conns, deleted, failing,
                            IF deleted.threw \/ deleted.value = Null THEN clock ELSE t[1])

\* getAllUsers whose catch block also returns an empty list as data
GetAllUsersRunErrorWithData(us, conns, failing, fault, clock) ==
    LET found == Called("userRepository.findAll", failing, fault, us,
                        Returned(us, FindAll(us)))
    IN  IF found.threw
        THEN Run(us, conns, [error |-> "Failed to retrieve users", data |-> <<>>],
                 <<>>, <<>>, <<"userRepository.findAll">>,
                 ErrorOf("userRepository.findAll", found), clock, FALSE)
        ELSE Run(us, conns,
                 [data |-> found.value,
                  message |-> "Retrieved " \o ToString(Len(found.value)) \o " users"],
                 <<>>, <<>>, <<"userRepository.findAll">>, <<>>, clock, FALSE)

\* getAllUsers()
GetAllUsersRun(us, conns, failing, fault, clock) ==
    LET found == Called("userRepository.findAll", failing, fault, us,
                        Returned(us, FindAll(us)))
    IN  IF found.threw
        THEN Run(us, conns, [error |-> "Failed to retrieve users"], <<>>, <<>>,
                 <<"userRepository.findAll">>,
                 ErrorOf("userRepository.findAll", found), clock, FALSE)
        ELSE Run(us, conns,
                 [data |-> found.value,
                  message |-> "Retrieved " \o ToString(Len(found.value)) \o " users"],
                 <<>>, <<>>, <<"userRepository.findAll">>, <<>>, clock, FALSE)

\* getUserById(id)
GetUserByIdRun(us, conns, id, failing, fault, clock) ==
    LET found == Called("userRepository.findById", failing, fault, us,
                        Returned(us, FindById(us, id)))
    IN  IF IsBlank(id)
        THEN Run(us, conns, [error |-> "User ID is required"],
                 <<>>, <<>>, <<>>, <<>>, clock, FALSE)
        ELSE IF found.threw
        THEN Run(us, conns, [error |-> "Failed to retrieve user"], <<>>, <<>>,
                 <<"userRepository.findById">>,
                 ErrorOf("userRepository.findById", found), clock, FALSE)
        ELSE IF found.value = Null
        THEN Run(us, conns, [error |-> "User not found"],
                 <<>>, <<>>, <<"userRepository.findById">>, <<>>, clock, FALSE)
        ELSE Run(us, conns,
                 [data |-> found.value, message |-> "User retrieved successfully"],
                 <<>>, <<>>, <<"userRepository.findById">>, <<>>, clock, FALSE)

\* the bounds check with limit >= 100 for limit > 100
InvalidPaginationOffByOne(offset, limit) ==
    offset < 0 \/ limit <= 0 \/ limit >= MaxLimit

\* offset < 0 || limit <= 0 || limit > 100
InvalidPagination(offset, limit) == offset < 0 \/ limit <= 0 \/ limit > MaxLimit

\* getUsersPaginated(offset, limit): both store calls are made before
\* Promise.all is awaited
GetUsersPaginatedRun(us, conns, offset, limit, failing, fault, clock) ==
    LET paged == Called("userRepository.findPaginated", failing, fault, us,
                        Returned(us, FindPaginated(us, offset, limit)))
        counted == Called("userRepository.count", failing, fault, us,
                          Returned(us, Count(us)))
        page == paged.value
        total == counted.value
    IN  IF InvalidPagination(offset, limit)
        THEN Run(us, conns, [error |-> "Invalid pagination parameters"],
                 <<>>, <<>>, <<>>, <<>>, clock, FALSE)
        ELSE IF paged.threw \/ counted.threw
        THEN Run(us, conns, [error |-> "Failed to retrieve users"], <<>>, <<>>,
                 <<"userRepository.findPaginated", "userRepository.count">>,
                 ErrorOf("userRepository.findPaginated", paged)
                     \o ErrorOf("userRepository.count", counted),
                 clock, FALSE)
        ELSE Run(us, conns,
                 [data |-> [users |-> page, total |-> total,
                            offset |-> offset, limit |-> limit],
                  message |-> "Retrieved " \o ToString(Len(page)) \o " of "
                              \o ToString(total) \o " users"],
                 <<>>, <<>>,
                 <<"userRepository.findPaginated", "userRepository.count">>, <<>>,
                 clock, FALSE)

\* userExistsByEmail without its try/catch: the error reaches the caller
UserExistsByEmailRunNoCatch(us, conns, email, failing, fault, clock) ==
    LET found == Called("userRepository.findByEmail", failing, fault, us,
                        Returned(us, FindByEmail(us, email)))
    IN  IF found.threw
        THEN Run(us, conns, [rejected |-> found.message], <<>>, <<>>,
                 <<"userRepository.findByEmail">>,
                 ErrorOf("userRepository.findByEmail", found), clock, FALSE)
        ELSE Run(us, conns, [value |-> found.value # Null], <<>>, <<>>,
                 <<"userRepository.findByEmail">>, <<>>, clock, FALSE)

\* userExistsByEmail(email): the boolean it resolves to is response.value
UserExistsByEmailRun(us, conns, email, failing, fault, clock) ==
    LET found == Called("userRepository.findByEmail", failing, fault, us,
                        Returned(us, FindByEmail(us, email)))
    IN  IF found.threw
        THEN Run(us, conns, [value |-> FALSE], <<>>, <<>>,
                 <<"userRepository.findByEmail">>,
                 ErrorOf("userRepository.findByEmail", found), clock, FALSE)
        ELSE Run(us, conns, [value |-> found.value # Null], <<>>, <<>>,
                 <<"userRepository.findByEmail">>, <<>>, clock, FALSE)

\* getUserStats that reports the two counts under each other's key
GetUserStatsRunSwapped(us, conns, failing, fault, clock) ==
    LET counted == Called("userRepository.count", failing, fault, us,
                          Returned(us, Count(us)))
    IN  IF counted.threw
        THEN Run(us, conns, [error |-> "Failed to retrieve user statistics"], <<>>, <<>>,
                 <<"userRepository.count">>,
                 ErrorOf("userRepository.count", counted), clock, FALSE)
        ELSE Run(us, conns,
                 [data |-> [totalUsers |-> GetConnectionCount(conns),
                            connectionsCount |-> counted.value],
                  message |-> "User statistics retrieved successfully"],
                 <<>>, <<>>,
                 <<"userRepository.count", "wsManager.getConnectionCount">>, <<>>,
                 clock, FALSE)

\* getUserStats()
GetUserStatsRun(us, conns, failing, fault, clock) ==
    LET counted == Called("userRepository.count", failing, fault, us,
                          Returned(us, Count(us)))
    IN  IF counted.threw
        THEN Run(us, conns, [error |-> "Failed to retrieve user statistics"], <<>>, <<>>,
                 <<"userRepository.count">>,
                 ErrorOf("userRepository.count", counted), clock, FALSE)
        ELSE Run(us, conns,
                 [data |-> [totalUsers |-> counted.value,
                            connectionsCount |-> GetConnectionCount(conns)],
                  message |-> "User statistics retrieved successfully"],
                 <<>>, <<>>,
                 <<"userRepository.count", "wsManager.getConnectionCount">>, <<>>,
                 clock, FALSE)

---------------------------------------------------------------------------
(* UserController: the Response each handler builds from the service's result. *)
(* A Response is its status and the object its JSON body parses to.            *)

\* if (result.error): the key is there and its string is not empty
HasError(result) == "error" \in DOMAIN result /\ ~Falsy(result.error)

\* result.key as an optional value: <<v>>, or <<>> for undefined
Prop(result, key) == IF key \in DOMAIN result THEN <<result[key]>> ELSE <<>>

\* the object with key set to the optional value v; JSON.stringify drops undefined
Keyed(key, v) == IF v = <<>> THEN EmptyDto ELSE [k \in {key} |-> v[1]]

\* createSuccessResponse(data, message, statusCode)
CreateSuccessResponse(data, message, statusCode) ==
    [status |-> statusCode,
     body |-> [success |-> TRUE] @@ Keyed("data", data)
              @@ (IF message # <<>> /\ ~Falsy(message[1])
                     THEN Keyed("message", message) ELSE EmptyDto)]

\* createErrorResponse(error, statusCode)
CreateErrorResponse(error, statusCode) ==
    [status |-> statusCode, body |-> [success |-> FALSE, error |-> error]]

GetAllUsersHandler(result) ==
    IF HasError(result) THEN CreateErrorResponse(result.error, 500)
    ELSE CreateSuccessResponse(Prop(result, "data"), Prop(result, "message"), 200)

GetUserStatsHandler(result) ==
    IF HasError(result) THEN CreateErrorResponse(result.error, 500)
    ELSE CreateSuccessResponse(Prop(result, "data"), Prop(result, "message"), 200)

\* the handler that answers every error with 400
GetUserByIdHandlerAlways400(result) ==
    IF HasError(result) THEN CreateErrorResponse(result.error, 400)
    ELSE CreateSuccessResponse(Prop(result, "data"), Prop(result, "message"), 200)

GetUserByIdHandler(result) ==
    IF HasError(result)
    THEN CreateErrorResponse(result.error,
                             IF result.error = "User not found" THEN 404 ELSE 400)
    ELSE CreateSuccessResponse(Prop(result, "data"), Prop(result, "message"), 200)

CreateUserHandler(result) ==
    IF HasError(result)
    THEN CreateErrorResponse(result.error,
                             IF Includes(result.error, "already exists") THEN 409 ELSE 400)
    ELSE CreateSuccessResponse(Prop(result, "data"), Prop(result, "message"), 201)

UpdateUserHandler(result) ==
    IF HasError(result)
    THEN CreateErrorResponse(result.error,
                             IF result.error = "User not found" THEN 404
                             ELSE IF Includes(result.error, "already exists") THEN 409
                             ELSE 400)
    ELSE CreateSuccessResponse(Prop(result, "data"), Prop(result, "message"), 200)

DeleteUserHandler(result) ==
    IF HasError(result)
    THEN CreateErrorResponse(result.error,
                             IF result.error = "User not found" THEN 404 ELSE 400)
    ELSE CreateSuccessResponse(
             <<Keyed("message", Prop(result, "message"))
               @@ Keyed("user", Prop(result, "data"))>>,
             Prop(result, "message"), 200)

\* getUsersPaginated once parseInt has read both parameters
GetUsersPaginatedHandler(result) ==
    IF HasError(result) THEN CreateErrorResponse(result.error, 400)
    ELSE CreateSuccessResponse(Prop(result, "data"), Prop(result, "message"), 200)

---------------------------------------------------------------------------
(* The system *)

NoResponse == [void |-> TRUE]

\* the clock readings a call may make: n readings, none before now, in order
Readings(n) ==
    {t \in [1..n -> now..MaxClock] : \A i \in 1..(n - 1) : t[i] <= t[i + 1]}

\* the ids a caller may name: the fixed inputs and every UUID handed out
TargetIds == InputIds \cup {RandomUUID(k) : k \in 1..uuidCount}

\* the state after construction, the clock standing at t0
InitAt(t0) ==
    /\ users = SeedUsers([i \in 1..6 |-> t0])
    /\ connections = <<>>
    /\ now = t0
    /\ uuidCount = 0
    /\ deletedIds = {}
    /\ call = [op |-> "constructor"]
    /\ response = NoResponse
    /\ events = <<>>
    /\ sends = <<>>
    /\ trace = <<>>
    /\ thrown = <<>>
    /\ http = NoResponse
    /\ refs = <<>>
    /\ closes = <<>>
    /\ tasks = <<>>

\* construction with the whole range of the clock ahead
Init == InitAt(0)

\* construction in the last tick of the clock's range: every call of the run
\* reads the same time
InitLate == InitAt(MaxClock)

\* the state a run leaves
Returns(r) ==
    /\ users' = r.users
    /\ connections' = r.connections
    /\ now' = r.now
    /\ uuidCount' = IF r.drewId THEN uuidCount + 1 ELSE uuidCount
    /\ response' = r.response
    /\ events' = r.events
    /\ sends' = r.sends
    /\ trace' = r.trace
    /\ thrown' = r.thrown

\* a run that returned an error: it read no clock and sent nothing, so no
\* clock reading and no send outcome is drawn for it
Failed(r) == "error" \in DOMAIN r.response

NoReadings(n) == [i \in 1..n |-> now]

\* what a call that runs to completion and returns fresh objects leaves alone
Frame ==
    /\ refs' = <<>>
    /\ closes' = <<>>
    /\ UNCHANGED tasks

\* the fault argument of a run in which no repository method fails
NoFault == [instanceofError |-> TRUE, message |-> ""]

CreateUser(createDto) ==
    /\ call' = [op |-> "createUser", dto |-> createDto]
    /\ UNCHANGED deletedIds
    /\ Frame
    /\ \E id \in {RandomUUID(uuidCount + 1)} :
       \E r0 \in {CreateUserRun(users, connections, createDto, id,
                                NoReadings(3), {}, NoFault, now)} :
          IF Failed(r0) THEN Returns(r0)
          ELSE /\ uuidCount < MaxCreates
               /\ \E t \in Readings(3), failing \in SUBSET Members(connections) :
                  \E r \in {CreateUserRun(users, connections, createDto, id,
                                          t, failing, NoFault, now)} : Returns(r)
    /\ http' = CreateUserHandler(response')

UpdateUser(id, updateDto) ==
    /\ call' = [op |-> "updateUser", id |-> id, dto |-> updateDto]
    /\ UNCHANGED deletedIds
    /\ Frame
    /\ \E r0 \in {UpdateUserRun(users, connections, id, updateDto,
                                NoReadings(2), {}, NoFault, now)} :
          IF Failed(r0) THEN Returns(r0)
          ELSE \E t \in Readings(2), failing \in SUBSET Members(connections) :
               \E r \in {UpdateUserRun(users, connections, id, updateDto,
                                       t, failing, NoFault, now)} : Returns(r)
    /\ http' = UpdateUserHandler(response')

DeleteUser(id) ==
    /\ call' = [op |-> "deleteUser", id |-> id]
    /\ Frame
    /\ \E r0 \in {DeleteUserRun(users, connections, id, NoReadings(1), {}, NoFault, now)} :
          IF Failed(r0)
          THEN Returns(r0) /\ UNCHANGED deletedIds
          ELSE /\ deletedIds' = deletedIds \cup {id}
               /\ \E t \in Readings(1), failing \in SUBSET Members(connections) :
                  \E r \in {DeleteUserRun(users, connections, id, t, failing,
                                          NoFault, now)} :
                     Returns(r)
    /\ http' = DeleteUserHandler(response')

GetAllUsers ==
    /\ call' = [op |-> "getAllUsers"]
    /\ \E r \in {GetAllUsersRun(users, connections, {}, NoFault, now)} : Returns(r)
    /\ http' = GetAllUsersHandler(response')
    /\ refs' = FindAllRefs(users)
    /\ closes' = <<>>
    /\ UNCHANGED <<deletedIds, tasks>>

GetUserById(id) ==
    /\ call' = [op |-> "getUserById", id |-> id]
    /\ \E r \in {GetUserByIdRun(users, connections, id, {}, NoFault, now)} : Returns(r)
    /\ http' = GetUserByIdHandler(response')
    /\ UNCHANGED deletedIds
    /\ Frame

GetUsersPaginated(offset, limit) ==
    /\ call' = [op |-> "getUsersPaginated", offset |-> offset, limit |-> limit]
    /\ \E r \in {GetUsersPaginatedRun(users, connections, offset, limit, {}, NoFault, now)} :
          Returns(r)
    /\ http' = GetUsersPaginatedHandler(response')
    /\ UNCHANGED deletedIds
    /\ Frame

GetUserStats ==
    /\ call' = [op |-> "getUserStats"]
    /\ \E r \in {GetUserStatsRun(users, connections, {}, NoFault, now)} : Returns(r)
    /\ http' = GetUserStatsHandler(response')
    /\ UNCHANGED deletedIds
    /\ Frame

UserExistsByEmail(email) ==
    /\ call' = [op |-> "userExistsByEmail", email |-> email]
    /\ \E r \in {UserExistsByEmailRun(users, connections, email, {}, NoFault, now)} :
          Returns(r)
    /\ http' = NoResponse
    /\ UNCHANGED deletedIds
    /\ Frame

(* The same calls while collaborators fail: some callees of mayFail throw, and *)
(* the send to any connected sink may throw                                    *)

\* the sets of callees that throw during one call
Failing(mayFail) ==
    {sinks \cup callees :
        sinks \in SUBSET Members(connections), callees \in SUBSET mayFail \ {{}}}

CreateUserFailing(createDto, mayFail) ==
    /\ call' = [op |-> "createUser", dto |-> createDto]
    /\ UNCHANGED deletedIds
    /\ Frame
    /\ uuidCount < MaxCreates
    /\ \E id \in {RandomUUID(uuidCount + 1)}, t \in Readings(3),
          failing \in Failing(mayFail), fault \in Faults :
          \E r \in {CreateUserRun(users, connections, createDto, id,
                                  t, failing, fault, now)} : Returns(r)
    /\ http' = CreateUserHandler(response')

UpdateUserFailing(id, updateDto, mayFail) ==
    /\ call' = [op |-> "updateUser", id |-> id, dto |-> updateDto]
    /\ UNCHANGED deletedIds
    /\ Frame
    /\ \E t \in Readings(2), failing \in Failing(mayFail), fault \in Faults :
          \E r \in {UpdateUserRun(users, connections, id, updateDto,
                                  t, failing, fault, now)} : Returns(r)
    /\ http' = UpdateUserHandler(response')

DeleteUserFailing(id, mayFail) ==
    /\ call' = [op |-> "deleteUser", id |-> id]
    /\ Frame
    /\ \E t \in Readings(1), failing \in Failing(mayFail), fault \in Faults :
          \E r \in {DeleteUserRun(users, connections, id, t, failing, fault, now)} :
             /\ Returns(r)
             /\ deletedIds' = IF Failed(r) THEN deletedIds ELSE deletedIds \cup {id}
    /\ http' = DeleteUserHandler(response')

GetAllUsersFailing(mayFail) ==
    /\ call' = [op |-> "getAllUsers"]
    /\ \E failing \in Failing(mayFail), fault \in Faults :
          \E r \in {GetAllUsersRun(users, connections, failing, fault, now)} :
             /\ Returns(r)
             /\ refs' = IF Failed(r) THEN <<>> ELSE FindAllRefs(users)
    /\ http' = GetAllUsersHandler(response')
    /\ closes' = <<>>
    /\ UNCHANGED <<deletedIds, tasks>>

GetUserByIdFailing(id, mayFail) ==
    /\ call' = [op |-> "getUserById", id |-> id]
    /\ \E failing \in Failing(mayFail), fault \in Faults :
          \E r \in {GetUserByIdRun(users, connections, id, failing, fault, now)} :
             Returns(r)
    /\ http' = GetUserByIdHandler(response')
    /\ UNCHANGED deletedIds
    /\ Frame

GetUsersPaginatedFailing(offset, limit, mayFail) ==
    /\ call' = [op |-> "getUsersPaginated", offset |-> offset, limit |-> limit]
    /\ \E failing \in Failing(mayFail), fault \in Faults :
          \E r \in {GetUsersPaginatedRun(users, connections, offset, limit,
                                         failing, fault, now)} : Returns(r)
    /\ http' = GetUsersPaginatedHandler(response')
    /\ UNCHANGED deletedIds
    /\ Frame

GetUserStatsFailing(mayFail) ==
    /\ call' = [op |-> "getUserStats"]
    /\ \E failing \in Failing(mayFail), fault \in Faults :
          \E r \in {GetUserStatsRun(users, connections, failing, fault, now)} : Returns(r)
    /\ http' = GetUserStatsHandler(response')
    /\ UNCHANGED deletedIds
    /\ Frame

UserExistsByEmailFailing(email, mayFail) ==
    /\ call' = [op |-> "userExistsByEmail", email |-> email]
    /\ \E failing \in Failing(mayFail), fault \in Faults :
          \E r \in {UserExistsByEmailRun(users, connections, email,
                                         failing, fault, now)} : Returns(r)
    /\ http' = NoResponse
    /\ UNCHANGED deletedIds
    /\ Frame

(* Direct calls of the repository, and a caller that changes what it got back *)

\* a repository method returned r: response holds the value it resolved to, or
\* the message it rejected with
RepositoryReturns(r, rf, clock, drew) ==
    /\ users' = r.users
    /\ response' = IF r.threw THEN [rejected |-> r.message] ELSE [value |-> r.value]
    /\ refs' = IF r.threw THEN <<>> ELSE rf
    /\ now' = clock
    /\ uuidCount' = IF drew THEN uuidCount + 1 ELSE uuidCount
    /\ events' = <<>>
    /\ sends' = <<>>
    /\ trace' = <<>>
    /\ thrown' = <<>>
    /\ closes' = <<>>
    /\ http' = NoResponse
    /\ UNCHANGED <<connections, deletedIds, tasks>>

FindAllCall ==
    /\ call' = [op |-> "userRepository.findAll"]
    /\ RepositoryReturns(Returned(users, FindAll(users)), FindAllRefs(users), now, FALSE)

FindByIdCall(id) ==
    /\ call' = [op |-> "userRepository.findById", id |-> id]
    /\ RepositoryReturns(Returned(users, FindById(users, id)),
                         CopyRefs(FindById(users, id)), now, FALSE)

FindByEmailCall(email) ==
    /\ call' = [op |-> "userRepository.findByEmail", email |-> email]
    /\ RepositoryReturns(Returned(users, FindByEmail(users, email)),
                         CopyRefs(FindByEmail(users, email)), now, FALSE)

FindPaginatedCall(offset, limit) ==
    /\ call' = [op |-> "userRepository.findPaginated", offset |-> offset, limit |-> limit]
    /\ RepositoryReturns(Returned(users, FindPaginated(users, offset, limit)),
                         FindPaginatedRefs(FindPaginated(users, offset, limit)),
                         now, FALSE)

CreateCall(createDto) ==
    /\ call' = [op |-> "userRepository.create", dto |-> createDto]
    /\ uuidCount < MaxCreates
    /\ \E t \in Readings(3) :
       \E r \in {Create(users, createDto, RandomUUID(uuidCount + 1), t[1], t[2], t[3])} :
          RepositoryReturns(r, CopyRefs(r.value),
                            IF r.threw THEN now ELSE t[3], ~r.threw)

UpdateCall(id, updateDto) ==
    /\ call' = [op |-> "userRepository.update", id |-> id, dto |-> updateDto]
    /\ \E t \in Readings(2) :
       \E r \in {Update(users, id, updateDto, t[1], t[2])} :
          RepositoryReturns(r, CopyRefs(r.value),
                            IF r.value = Null THEN now ELSE t[2], FALSE)

DeleteCall(id) ==
    /\ call' = [op |-> "userRepository.delete", id |-> id]
    /\ \E t \in Readings(1) :
       \E r \in {Delete(users, id, t[1])} :
          RepositoryReturns(r, CopyRefs(r.value),
                            IF r.value = Null THEN now ELSE t[1], FALSE)

\* what the last call returned, with field of its k-th User set to value
SetReturned(resp, op, k, field, value) ==
    IF op = "getAllUsers" THEN [resp EXCEPT !.data[k][field] = value]
    ELSE IF op \in {"userRepository.findAll", "userRepository.findPaginated"}
    THEN [resp EXCEPT !.value[k][field] = value]
    ELSE [resp EXCEPT !.value[field] = value]

\* the caller assigns value to field of the k-th User the last call returned:
\* the assignment lands in the object, whoever else holds it
WriteReturned(k, field, value) ==
    /\ k \in 1..Len(refs)
    /\ call' = [op |-> "writeReturned", k |-> k, field |-> field, value |-> value]
    /\ response' = SetReturned(response, call.op, k, field, value)
    /\ users' = IF refs[k] = 0 THEN users
                ELSE [users EXCEPT ![refs[k]][field] = value]
    /\ refs' = <<>>
    /\ trace' = <<>>
    /\ UNCHANGED <<connections, now, uuidCount, deletedIds, events, sends, thrown,
                   http, closes, tasks>>

(* Calls in flight.  An async function runs until its first await, and each   *)
(* await hands control back to the event loop, which resumes the suspended     *)
(* calls one continuation at a time.  A task is a call with the await it is    *)
(* suspended at (pc) and the locals it holds; a settled task keeps the         *)
(* response it resolved to.                                                    *)

\* a call returned r: what its caller sees; the store, the clock and the ids
\* are as the steps of the call left them
Resolves(c, r) ==
    /\ call' = c
    /\ connections' = r.connections
    /\ response' = r.response
    /\ events' = r.events
    /\ sends' = r.sends
    /\ trace' = r.trace
    /\ thrown' = r.thrown
    /\ refs' = <<>>
    /\ closes' = <<>>

\* a step that suspends at an await: no call has returned
Suspends ==
    UNCHANGED <<connections, call, response, events, sends, trace, thrown, http,
                refs, closes>>

\* the tasks suspended inside userRepository.create, each about to draw an id
AwaitingCreate == {k \in 1..Len(tasks) : tasks[k].pc = "create: await findByEmail"}

\* createUser(createDto) up to the first await: validation, and inside
\* userRepository.create the call of findByEmail, whose result is awaited
StartCreateUser(createDto) ==
    /\ Len(tasks) < MaxTasks
    /\ UNCHANGED <<users, now, uuidCount, deletedIds>>
    /\ LET validationErrors == ValidateCreateDto(createDto)
           c == [op |-> "createUser", dto |-> createDto]
       IN  IF Len(validationErrors) > 0
           THEN \E r \in {CreateUserRun(users, connections, createDto, "", NoReadings(3),
                                        {}, NoFault, now)} :
                   /\ Resolves(c, r)
                   /\ http' = CreateUserHandler(r.response)
                   /\ tasks' = Append(tasks, c @@ [pc |-> "settled",
                                                   response |-> r.response])
           ELSE /\ uuidCount + Cardinality(AwaitingCreate) < MaxCreates
                /\ tasks' = Append(tasks,
                       c @@ [pc |-> "create: await findByEmail",
                             existingUser |-> FindByEmail(users, createDto.email)])
                /\ Suspends

\* userRepository.create resumes with what findByEmail resolved to, and runs to
\* its return; createUser stays suspended at its await of create
ResumeCreate(k) ==
    /\ k \in AwaitingCreate
    /\ \E t \in Readings(3) :
       \E r \in {CreateResume(users, tasks[k].existingUser, tasks[k].dto,
                              RandomUUID(uuidCount + 1), t[1], t[2], t[3])} :
          /\ users' = r.users
          /\ now' = IF r.threw THEN now ELSE t[3]
          /\ uuidCount' = IF r.threw THEN uuidCount ELSE uuidCount + 1
          /\ tasks' = [tasks EXCEPT ![k] =
                 [op |-> "createUser", dto |-> tasks[k].dto,
                  pc |-> "createUser: await create",
                  created |-> [instanceofError |-> TRUE] @@ r]]
    /\ UNCHANGED deletedIds
    /\ Suspends

\* createUser resumes with what create came to, broadcasts and returns
ResumeCreateUser(k) ==
    /\ k \in 1..Len(tasks)
    /\ tasks[k].pc = "createUser: await create"
    /\ \E r \in {CreateUserTail(users, connections, tasks[k].created, {}, now)} :
          /\ Resolves([op |-> "createUser", dto |-> tasks[k].dto], r)
          /\ http' = CreateUserHandler(r.response)
          /\ tasks' = [tasks EXCEPT ![k] =
                 [op |-> "createUser", dto |-> tasks[k].dto,
                  pc |-> "settled", response |-> r.response]]
    /\ UNCHANGED <<users, now, uuidCount, deletedIds>>

\* updateUser(id, updateDto) up to the first await: the id and patch checks and
\* the call of findById, whose result is awaited
StartUpdateUser(id, updateDto) ==
    /\ Len(tasks) < MaxTasks
    /\ UNCHANGED <<users, now, uuidCount, deletedIds>>
    /\ LET c == [op |-> "updateUser", id |-> id, dto |-> updateDto]
       IN  IF IsBlank(id) \/ Len(ValidateUpdateDto(updateDto)) > 0
           THEN \E r \in {UpdateUserHead(users, connections, id, updateDto,
                                         Returned(users, Null), now)} :
                   /\ Resolves(c, r)
                   /\ http' = UpdateUserHandler(r.response)
                   /\ tasks' = Append(tasks, c @@ [pc |-> "settled",
                                                   response |-> r.response])
           ELSE /\ tasks' = Append(tasks,
                       c @@ [pc |-> "updateUser: await findById",
                             existingUser |-> FindById(users, id)])
                /\ Suspends

\* updateUser resumes with what findById resolved to.  Without a user it
\* returns; otherwise it calls userRepository.update, which runs to its first
\* await (findByEmail, when the patch has an email) or to its return
ResumeUpdateUser(k) ==
    /\ k \in 1..Len(tasks)
    /\ tasks[k].pc = "updateUser: await findById"
    /\ UNCHANGED deletedIds
    /\ LET c == [op |-> "updateUser", id |-> tasks[k].id, dto |-> tasks[k].dto]
           found == [instanceofError |-> TRUE] @@ Returned(users, tasks[k].existingUser)
           head == UpdateUserHead(users, connections, c.id, c.dto, found, now)
           index == FindIndexById(users, c.id)
       IN  IF head # Null
           THEN /\ Resolves(c, head)
                /\ http' = UpdateUserHandler(head.response)
                /\ tasks' = [tasks EXCEPT ![k] =
                       c @@ [pc |-> "settled", response |-> head.response]]
                /\ UNCHANGED <<users, now, uuidCount>>
           ELSE IF index # 0 /\ ChecksEmail(c.dto)
           THEN /\ tasks' = [tasks EXCEPT ![k] =
                       c @@ [pc |-> "update: await findByEmail", index |-> index,
                             existingUser |-> FindByEmail(users, c.dto.email)]]
                /\ Suspends
                /\ UNCHANGED <<users, now, uuidCount>>
           ELSE \E t \in Readings(2) :
                \E r \in {Update(users, c.id, c.dto, t[1], t[2])} :
                   /\ users' = r.users
                   /\ now' = IF r.value = Null THEN now ELSE t[2]
                   /\ tasks' = [tasks EXCEPT ![k] =
                          c @@ [pc |-> "updateUser: await update",
                                updated |-> [instanceofError |-> TRUE] @@ r]]
                   /\ Suspends
                   /\ UNCHANGED uuidCount

\* userRepository.update resumes with what findByEmail resolved to and with the
\* position it found before the await, and runs to its return
ResumeUpdate(k) ==
    /\ k \in 1..Len(tasks)
    /\ tasks[k].pc = "update: await findByEmail"
    /\ \E t \in Readings(2) :
       \E r \in {UpdateResume(users, tasks[k].index, tasks[k].existingUser,
                              tasks[k].id, tasks[k].dto, t[1], t[2])} :
          /\ users' = r.users
          /\ now' = IF r.threw THEN now ELSE t[2]
          /\ tasks' = [tasks EXCEPT ![k] =
                 [op |-> "updateUser", id |-> tasks[k].id, dto |-> tasks[k].dto,
                  pc |-> "updateUser: await update",
                  updated |-> [instanceofError |-> TRUE] @@ r]]
    /\ UNCHANGED <<uuidCount, deletedIds>>
    /\ Suspends

\* updateUser resumes with what update came to, broadcasts and returns
SettleUpdateUser(k) ==
    /\ k \in 1..Len(tasks)
    /\ tasks[k].pc = "updateUser: await update"
    /\ \E r \in {UpdateUserTail(users, connections, tasks[k].updated, {}, now)} :
          /\ Resolves([op |-> "updateUser", id |-> tasks[k].id, dto |-> tasks[k].dto], r)
          /\ http' = UpdateUserHandler(r.response)
          /\ tasks' = [tasks EXCEPT ![k] =
                 [op |-> "updateUser", id |-> tasks[k].id, dto |-> tasks[k].dto,
                  pc |-> "settled", response |-> r.response]]
    /\ UNCHANGED <<users, now, uuidCount, deletedIds>>

\* deleteUser(id) up to the first await: the id check and the call of findById,
\* whose result is awaited
StartDeleteUser(id) ==
    /\ Len(tasks) < MaxTasks
    /\ UNCHANGED <<users, now, uuidCount, deletedIds>>
    /\ LET c == [op |-> "deleteUser", id |-> id]
       IN  IF IsBlank(id)
           THEN \E r \in {DeleteUserHead(users, connections, id,
                                         Returned(users, Null), now)} :
                   /\ Resolves(c, r)
                   /\ http' = DeleteUserHandler(r.response)
                   /\ tasks' = Append(tasks, c @@ [pc |-> "settled",
                                                   response |-> r.response])
           ELSE /\ tasks' = Append(tasks,
                       c @@ [pc |-> "deleteUser: await findById",
                             existingUser |-> FindById(users, id)])
                /\ Suspends

\* deleteUser resumes with what findById resolved to.  Without a user it
\* returns; otherwise it calls userRepository.delete, which has no await and
\* runs to its return, and deleteUser is suspended at its await of that call
ResumeDeleteUser(k) ==
    /\ k \in 1..Len(tasks)
    /\ tasks[k].pc = "deleteUser: await findById"
    /\ UNCHANGED <<uuidCount, deletedIds>>
    /\ LET c == [op |-> "deleteUser", id |-> tasks[k].id]
           found == Returned(users, tasks[k].existingUser)
           head == DeleteUserHead(users, connections, c.id, found, now)
       IN  IF head # Null
           THEN /\ Resolves(c, head)
                /\ http' = DeleteUserHandler(head.response)
                /\ tasks' = [tasks EXCEPT ![k] =
                       c @@ [pc |-> "settled", response |-> head.response]]
                /\ UNCHANGED <<users, now>>
           ELSE \E t \in Readings(1) :
                \E r \in {Delete(users, c.id, t[1])} :
                   /\ users' = r.users
                   /\ now' = IF r.value = Null THEN now ELSE t[1]
                   /\ tasks' = [tasks EXCEPT ![k] =
                          c @@ [pc |-> "deleteUser: await delete", deleted |-> r]]
                   /\ Suspends

\* deleteUser resumes with what delete came to, broadcasts and returns
SettleDeleteUser(k) ==
    /\ k \in 1..Len(tasks)
    /\ tasks[k].pc = "deleteUser: await delete"
    /\ \E r \in {DeleteUserTail(users, connections, tasks[k].deleted, {}, now)} :
          /\ Resolves([op |-> "deleteUser", id |-> tasks[k].id], r)
          /\ http' = DeleteUserHandler(r.response)
          /\ deletedIds' = IF "data" \in DOMAIN r.response
                           THEN deletedIds \cup {tasks[k].id} ELSE deletedIds
          /\ tasks' = [tasks EXCEPT ![k] =
                 [op |-> "deleteUser", id |-> tasks[k].id,
                  pc |-> "settled", response |-> r.response]]
    /\ UNCHANGED <<users, now, uuidCount>>

\* addConnection(ws): the transport's open event
AddConnection(ws) ==
    /\ connections' = SetAdd(connections, ws)
    /\ call' = [op |-> "addConnection", ws |-> ws]
    /\ response' = NoResponse
    /\ events' = <<>>
    /\ sends' = <<>>
    /\ trace' = <<>>
    /\ thrown' = <<>>
    /\ http' = NoResponse
    /\ Frame
    /\ UNCHANGED <<users, now, uuidCount, deletedIds>>

\* removeConnection(ws): the transport's close event
RemoveConnection(ws) ==
    /\ connections' = SetDelete(connections, ws)
    /\ call' = [op |-> "removeConnection", ws |-> ws]
    /\ response' = NoResponse
    /\ events' = <<>>
    /\ sends' = <<>>
    /\ trace' = <<>>
    /\ thrown' = <<>>
    /\ http' = NoResponse
    /\ Frame
    /\ UNCHANGED <<users, now, uuidCount, deletedIds>>

\* a call of the registry returned: the store is as it was
RegistryReturns(c, conns, resp, snds, cls) ==
    /\ call' = c
    /\ connections' = conns
    /\ response' = resp
    /\ sends' = snds
    /\ closes' = cls
    /\ events' = <<>>
    /\ trace' = <<>>
    /\ thrown' = <<>>
    /\ http' = NoResponse
    /\ refs' = <<>>
    /\ UNCHANGED <<users, now, uuidCount, deletedIds, tasks>>

\* broadcastMessage(message), with the sends of the sinks in failing throwing
BroadcastMessage(message, failing) ==
    \E r \in {BroadcastMessageRun(connections, message, failing)} :
       RegistryReturns([op |-> "broadcastMessage", message |-> message],
                       r.connections, NoResponse, r.sends, <<>>)

\* sendToConnection(ws, message)
SendToConnection(ws, message, fails) ==
    \E r \in {SendToConnectionRun(connections, ws, message, fails)} :
       RegistryReturns([op |-> "sendToConnection", ws |-> ws, message |-> message],
                       r.connections, [value |-> r.value], r.sends, <<>>)

\* closeAllConnections(), as the SIGINT and SIGTERM handlers call it
CloseAllConnections(failing, closing) ==
    \E r \in {CloseAllConnectionsRun(connections, failing, closing)} :
       RegistryReturns([op |-> "closeAllConnections"], r.connections,
                       IF r.threw THEN [rejected |-> "close failed"] ELSE NoResponse,
                       <<>>, r.closes)

\* the open handler of /ws/v1/users: addConnection(ws), then the welcome message
Open(ws, fails) ==
    \E r \in {SendToConnectionRun(SetAdd(connections, ws), ws, "connection", fails)} :
       RegistryReturns([op |-> "ws.open", ws |-> ws],
                       r.connections, NoResponse, r.sends, <<>>)

\* the message handler of /ws/v1/users: the echo goes back to the sender
Message(ws, fails) ==
    \E r \in {SendToConnectionRun(connections, ws, "echo", fails)} :
       RegistryReturns([op |-> "ws.message", ws |-> ws],
                       r.connections, NoResponse, r.sends, <<>>)

(* Spec: the service under every operation, with one sink, all within one   *)
(* tick of the clock                                                        *)
Next ==
    \/ \E n \in InputNames, e \in InputEmails : CreateUser([name |-> n, email |-> e])
    \/ \E id \in TargetIds, p \in Patches : UpdateUser(id, p)
    \/ \E id \in TargetIds : DeleteUser(id)
    \/ \E id \in TargetIds : GetUserById(id)
    \/ \E o \in {-1, 1}, l \in {2} : GetUsersPaginated(o, l)
    \/ GetAllUsers
    \/ GetUserStats
    \/ \E ws \in {"ws1"} : AddConnection(ws)
    \/ \E ws \in {"ws1"} : RemoveConnection(ws)

Spec == InitLate /\ [][Next]_vars

(* SpecPage: paginated reads of every store that creates and deletes leave *)
NextPage ==
    \/ \E e \in {"ann@x.com", "John@example.com"} :
          CreateUser([name |-> "Ann Lee", email |-> e])
    \/ \E id \in {"2", RandomUUID(1)} : DeleteUser(id)
    \/ \E o \in Offsets, l \in Limits : GetUsersPaginated(o, l)

SpecPage == Init /\ [][NextPage]_vars

(* SpecRegistry: the broadcasts of the three mutations over two sinks *)
NextRegistry ==
    \/ \E ws \in Sinks : AddConnection(ws)
    \/ \E ws \in Sinks : RemoveConnection(ws)
    \/ CreateUser([name |-> "Ann Lee", email |-> "ann@x.com"])
    \/ UpdateUser("2", [name |-> "Ann Lee"])
    \/ \E id \in {"2", RandomUUID(1)} : DeleteUser(id)

SpecRegistry == Init /\ [][NextRegistry]_vars

(* SpecFaults: every service operation, with and without failing collaborators *)
NextFaults ==
    \/ \E ws \in Sinks : AddConnection(ws)
    \/ CreateUser([name |-> "Ann Lee", email |-> "ann@x.com"])
    \/ \E p \in {[name |-> "Ann Lee"], [email |-> "john@example.com"]} :
          UpdateUser("2", p)
    \/ \E id \in {"2", "99"} : DeleteUser(id)
    \/ GetAllUsers
    \/ \E id \in InputIds : GetUserById(id)
    \/ \E o \in {-1, 1}, l \in {2} : GetUsersPaginated(o, l)
    \/ GetUserStats
    \/ \E e \in {"john@example.com", "ann@x.com"} : UserExistsByEmail(e)
    \/ \E e \in {"john@example.com", "ann@x.com", "a@b"} :
          CreateUserFailing([name |-> "Ann Lee", email |-> e],
                            {Stringify, "userRepository.create"})
    \/ \E p \in {[name |-> "Ann Lee"], [email |-> "john@example.com"]} :
          UpdateUserFailing("2", p, {Stringify, "userRepository.findById",
                                    "userRepository.update"})
    \/ \E id \in {"2", "99"} :
          DeleteUserFailing(id, {Stringify, "userRepository.findById",
                                "userRepository.delete"})
    \/ GetAllUsersFailing({"userRepository.findAll"})
    \/ \E id \in InputIds : GetUserByIdFailing(id, {"userRepository.findById"})
    \/ \E o \in {-1, 1}, l \in {2} :
          GetUsersPaginatedFailing(o, l, {"userRepository.findPaginated",
                                          "userRepository.count"})
    \/ GetUserStatsFailing({"userRepository.count"})
    \/ \E e \in {"john@example.com", "ann@x.com"} :
          UserExistsByEmailFailing(e, {"userRepository.findByEmail"})

SpecFaults == InitLate /\ [][NextFaults]_vars

(* SpecCopy: callers of the repository that change the Users they were handed *)
NextCopy ==
    \/ FindAllCall
    \/ \E id \in {"2", "99"} : FindByIdCall(id)
    \/ \E e \in {"john@example.com", "ann@x.com"} : FindByEmailCall(e)
    \/ \E o \in {0, 1}, l \in {2} : FindPaginatedCall(o, l)
    \/ CreateCall([name |-> "Ann Lee", email |-> "ann@x.com"])
    \/ UpdateCall("2", [name |-> "Ann Lee"])
    \/ DeleteCall("2")
    \/ GetAllUsers
    \/ \E k \in 1..3 : WriteReturned(k, "name", "Mallory")

SpecCopy == Init /\ [][NextCopy]_vars

(* SpecSockets: the registry under its own operations, the socket handlers *)
(* and the broadcast of a mutation, over three sockets                     *)
NextSockets ==
    \/ \E ws \in Sockets : AddConnection(ws)
    \/ \E ws \in Sockets : RemoveConnection(ws)
    \/ \E ws \in Sockets, fails \in BOOLEAN : Open(ws, fails)
    \/ \E ws \in Sockets, fails \in BOOLEAN : Message(ws, fails)
    \/ \E ws \in Sockets, fails \in BOOLEAN : SendToConnection(ws, "hello", fails)
    \/ \E failing \in SUBSET Members(connections) : BroadcastMessage("hello", failing)
    \/ \E failing \in SUBSET Members(connections),
          closing \in SUBSET Members(connections) : CloseAllConnections(failing, closing)
    \/ UpdateUser("2", [name |-> "Ann Lee"])

SpecSockets == InitLate /\ [][NextSockets]_vars

(* SpecAsync: createUser, updateUser and deleteUser calls in flight at once, *)
(* resumed at their awaits in any order                                      *)
NextAsync ==
    \/ \E n \in {"Ann Lee", " A"}, e \in {"john@example.com", "ann@x.com"} :
          StartCreateUser([name |-> n, email |-> e])
    \/ \E id \in {"2", "99", " ", "3"},
          p \in {[email |-> "ann@x.com"], [name |-> "Ann Lee"], [email |-> "a@b"]} :
          StartUpdateUser(id, p)
    \/ \E k \in 1..MaxTasks : ResumeCreate(k)
    \/ \E k \in 1..MaxTasks : ResumeCreateUser(k)
    \/ \E k \in 1..MaxTasks : ResumeUpdateUser(k)
    \/ \E k \in 1..MaxTasks : ResumeUpdate(k)
    \/ \E k \in 1..MaxTasks : SettleUpdateUser(k)
    \/ \E id \in {"2", " "} : StartDeleteUser(id)
    \/ \E k \in 1..MaxTasks : ResumeDeleteUser(k)
    \/ \E k \in 1..MaxTasks : SettleDeleteUser(k)

SpecAsync == InitLate /\ [][NextAsync]_vars

---------------------------------------------------------------------------
(* Properties *)

Succeeded == "data" \in DOMAIN response
Errored == "error" \in DOMAIN response
Mutations == {"createUser", "updateUser", "deleteUser"}

\* a name and an email that pass the documented rules: the trimmed name has at
\* least two characters, the email has the shape local@domain.tld
ValidPair(dto) ==
    /\ Len(TrimChars(dto.name)) >= 2
    /\ EmailRegexTest(dto.email)

\* the live users other than id that hold email
OthersWithEmail(us, id, email) ==
    {i \in 1..Len(us) : us[i].email = email /\ us[i].id # id}

\* C1: after any sequence of createUser, updateUser and deleteUser calls on the
\* seeded store, no two live users have the same email (exact comparison).
C1_UniqueEmails ==
    \A i, j \in 1..Len(users) : users[i].email = users[j].email => i = j

\* a created user is live, a user was deleted, and an update has just changed an email
C1_Witness ==
    /\ call.op = "updateUser" /\ Succeeded /\ "email" \in DOMAIN call.dto
    /\ uuidCount >= 1 /\ deletedIds # {}
    /\ \E i \in 1..Len(users) : users[i].id = RandomUUID(1)

\* C2: createUser with a valid name and the email of a live user returns an error
\* containing "already exists" and leaves the collection as it was.
C2_CreateDuplicateConflict ==
    [][ ( /\ call'.op = "createUser"
          /\ ValidPair(call'.dto)
          /\ \E i \in 1..Len(users) : users[i].email = call'.dto.email )
        => ( /\ "error" \in DOMAIN response'
             /\ Includes(response'.error, "already exists")
             /\ users' = users ) ]_vars

\* createUser was refused for an email that a user created earlier holds
C2_Witness ==
    /\ call.op = "createUser" /\ Errored
    /\ Includes(response.error, "already exists")
    /\ \E i \in 1..Len(users) :
          users[i].email = call.dto.email /\ users[i].id = RandomUUID(1)

\* C3: for a live id and a valid email E, updateUser(id, {email: E}) returns the
\* conflict error when another live user holds E, and succeeds when E is the
\* current email of the user id.
C3_UpdateEmailConflict ==
    [][ ( /\ call'.op = "updateUser"
          /\ DOMAIN call'.dto = {"email"}
          /\ EmailRegexTest(call'.dto.email)
          /\ \E i \in 1..Len(users) : users[i].id = call'.id )
        => ( /\ OthersWithEmail(users, call'.id, call'.dto.email) # {}
                => ( /\ "error" \in DOMAIN response'
                     /\ Includes(response'.error, "already exists") )
             /\ (\E i \in 1..Len(users) :
                    users[i].id = call'.id /\ users[i].email = call'.dto.email)
                => "data" \in DOMAIN response' ) ]_vars

\* updateUser("2", {email: "john@example.com"}) was refused while user 1 holds it
C3_Witness ==
    /\ call = [op |-> "updateUser", id |-> "2", dto |-> [email |-> "john@example.com"]]
    /\ Errored /\ Includes(response.error, "already exists")
    /\ OthersWithEmail(users, "2", "john@example.com") # {}

C5_DeletedStaysGone ==
    (call.op = "getUserById" /\ call.id \in deletedIds)
        => response = [error |-> "User not found"]

\* getUserById of a deleted id, after a later createUser added a user
C5_Witness ==
    /\ call.op = "getUserById" /\ call.id \in deletedIds
    /\ Errored
    /\ \E i \in 1..Len(users) : users[i].id \in {RandomUUID(k) : k \in 1..uuidCount}

Min2(a, b) == IF a < b THEN a ELSE b
Max2(a, b) == IF a > b THEN a ELSE b

\* C6: for offset >= 0 and 1 <= limit <= 100, getUsersPaginated returns exactly
\* min(limit, max(0, total - offset)) users, those at positions offset ..
\* offset+limit-1 of the collection, and total equal to count().
C6_PageIsTheSlice ==
    ( /\ call.op = "getUsersPaginated"
      /\ call.offset >= 0 /\ call.limit >= 1 /\ call.limit <= 100 )
    => ( /\ Succeeded
         /\ Len(response.data.users)
               = Min2(call.limit, Max2(0, Len(users) - call.offset))
         /\ \A k \in 1..Len(response.data.users) :
               response.data.users[k] = users[call.offset + k]
         /\ response.data.total = Len(users) )

\* a page cut short by the end of the collection, read at an offset inside it
C6_Witness ==
    /\ call.op = "getUsersPaginated" /\ Succeeded
    /\ call.offset > 0
    /\ Len(response.data.users) > 0
    /\ Len(response.data.users) < call.limit

\* C7: getUsersPaginated returns "Invalid pagination parameters" exactly when
\* offset < 0 or limit <= 0 or limit > 100, and a rejected call reads no slice.
C7_PaginationBounds ==
    call.op = "getUsersPaginated"
    => ( /\ (response = [error |-> "Invalid pagination parameters"])
               <=> (call.offset < 0 \/ call.limit <= 0 \/ call.limit > 100)
         /\ Errored
               => \A k \in 1..Len(trace) : trace[k] # "userRepository.findPaginated" )

\* limit = 101 was rejected at a valid offset
C7_Witness ==
    /\ call.op = "getUsersPaginated" /\ call.limit = 101 /\ call.offset = 0
    /\ response = [error |-> "Invalid pagination parameters"]

\* the event type each mutation announces
EventType(op) ==
    CASE op = "createUser" -> "created"
      [] op = "updateUser" -> "updated"
      [] op = "deleteUser" -> "deleted"

\* C8: a createUser, updateUser or deleteUser call that returns success passes
\* exactly one UserEvent to broadcast, after the store mutation and before it
\* returns; the event has the call's type and carries the snapshot returned as data.
C8_OneEventPerSuccess ==
    (call.op \in Mutations /\ Succeeded)
    => ( /\ Len(events) = 1
         /\ events[1].type = EventType(call.op)
         /\ events[1].user = response.data
         /\ Len(trace) >= 2
         /\ trace[Len(trace)] = "wsManager.broadcast"
         /\ trace[Len(trace) - 1] \in
               {"userRepository.create", "userRepository.update", "userRepository.delete"}
         /\ \A k \in 1..(Len(trace) - 1) : trace[k] # "wsManager.broadcast"
         /\ IF call.op = "deleteUser"
            THEN \A i \in 1..Len(users) : users[i].id # events[1].user.id
            ELSE \E i \in 1..Len(users) :
                    /\ users[i].id = events[1].user.id
                    /\ users[i].name = events[1].user.name
                    /\ users[i].email = events[1].user.email )

\* a successful updateUser whose event went out to a connected sink
C8_Witness ==
    /\ call.op = "updateUser" /\ Succeeded
    /\ Len(events) = 1 /\ events[1].type = "updated"
    /\ Len(sends) = 1

\* C9: a createUser, updateUser or deleteUser call that returns an error leaves
\* every record of the collection unchanged and passes no event to broadcast.
C9_ErrorsChangeNothing ==
    [][ (call'.op \in Mutations /\ "error" \in DOMAIN response')
        => (users' = users /\ events' = <<>> /\ sends' = <<>>) ]_vars

\* updateUser("2", {email: "john@example.com"}) refused with user 2 as seeded
C9_Witness ==
    /\ call = [op |-> "updateUser", id |-> "2", dto |-> [email |-> "john@example.com"]]
    /\ Errored
    /\ \E i \in 1..Len(users) :
          users[i].id = "2" /\ users[i].email = "jane@example.com"

\* C10: broadcast attempts exactly one send to every sink that is in the set when
\* it starts, also after a failed send; the sinks whose send threw leave the set
\* and the others stay; with an empty set it sends nothing and changes nothing.
C10_BroadcastReachesEverySink ==
    [][ events' # <<>>
        => ( /\ Len(sends') = Len(connections)
             /\ \A ws \in Members(connections) :
                   Cardinality({i \in 1..Len(sends') : sends'[i].ws = ws}) = 1
             /\ Members(connections') \subseteq Members(connections)
             /\ \A ws \in Members(connections) :
                   ws \in Members(connections')
                      <=> \E i \in 1..Len(sends') : sends'[i].ws = ws /\ sends'[i].ok
             /\ connections = <<>>
                   => (sends' = <<>> /\ connections' = <<>>
                       /\ "data" \in DOMAIN response') ) ]_vars

\* the first sink's send threw and the second sink was still sent to
C10_Witness ==
    /\ Len(sends) = 2
    /\ ~sends[1].ok /\ sends[2].ok
    /\ connections = <<sends[2].ws>>

\* the broadcast of the call that led to the state failed: a send threw, or
\* broadcast itself threw
SendFailed(snds) == \E i \in 1..Len(snds) : ~snds[i].ok
BroadcastThrew(errs) == \E i \in 1..Len(errs) : errs[i].callee = "wsManager.broadcast"

\* the store us2 is the store us1 after the mutation op that returned user
MutationStands(op, us1, us2, user) ==
    CASE op = "createUser" ->
            /\ Len(us2) = Len(us1) + 1
            /\ SubSeq(us2, 1, Len(us1)) = us1
            /\ us2[Len(us2)].id = user.id
            /\ us2[Len(us2)].name = user.name
            /\ us2[Len(us2)].email = user.email
      [] op = "updateUser" ->
            /\ Len(us2) = Len(us1)
            /\ \E i \in 1..Len(us2) :
                  /\ us2[i].id = user.id
                  /\ us2[i].name = user.name
                  /\ us2[i].email = user.email
      [] op = "deleteUser" ->
            /\ Len(us2) = Len(us1) - 1
            /\ \A i \in 1..Len(us2) : us2[i].id # user.id

\* C11: when the broadcast of a createUser, updateUser or deleteUser whose store
\* call succeeded fails (a send throws, or broadcast itself throws), the call
\* still returns success with the mutated record and the store keeps the mutation.
C11_BroadcastFailureKeepsSuccess ==
    [][ ( /\ call'.op \in Mutations
          /\ events' # <<>>
          /\ (SendFailed(sends') \/ BroadcastThrew(thrown')) )
        => ( /\ "data" \in DOMAIN response'
             /\ "error" \notin DOMAIN response'
             /\ response'.data = events'[1].user
             /\ MutationStands(call'.op, users, users', response'.data) ) ]_vars

\* deleteUser returned success although broadcast threw
C11_Witness ==
    /\ call.op = "deleteUser" /\ Succeeded
    /\ BroadcastThrew(thrown)
    /\ \A i \in 1..Len(users) : users[i].id # call.id

\* a repository call of the call that led to the state threw
RepositoryThrew(errs) == \E i \in 1..Len(errs) : errs[i].callee \in RepositoryCallees

Operations ==
    {"createUser", "updateUser", "deleteUser", "getAllUsers", "getUserById",
     "getUsersPaginated", "getUserStats", "userExistsByEmail"}

\* C12: when a repository call made by a public UserService operation throws,
\* the operation still returns: an ApiResponse with an error, and for
\* userExistsByEmail the boolean false; no error reaches the caller.
C12_NoErrorEscapes ==
    (call.op \in Operations /\ RepositoryThrew(thrown))
    => ( /\ "rejected" \notin DOMAIN response
         /\ IF call.op = "userExistsByEmail"
            THEN response = [value |-> FALSE]
            ELSE /\ "error" \in DOMAIN response
                 /\ "data" \notin DOMAIN response )

\* userExistsByEmail answered false for the email of a live user because
\* findByEmail threw
C12_Witness ==
    /\ call.op = "userExistsByEmail"
    /\ RepositoryThrew(thrown)
    /\ response = [value |-> FALSE]
    /\ \E i \in 1..Len(users) : users[i].email = call.email

\* the fixed messages the catch blocks of UserService return
GenericMessages ==
    {"Failed to create user", "Failed to update user", "Failed to delete user",
     "Failed to retrieve users", "Failed to retrieve user",
     "Failed to retrieve user statistics"}

\* the errors of errs that a repository call threw other than the duplicate-email
\* conflict
Unexpected(errs) ==
    {i \in 1..Len(errs) :
        /\ errs[i].callee \in RepositoryCallees
        /\ errs[i].message # DuplicateError.message}

\* C13: when a repository call throws an error other than the duplicate-email
\* conflict, the error string the operation returns is one of the fixed generic
\* messages and does not contain the message of the thrown error.
C13_UnexpectedErrorsAreGeneric ==
    (call.op \in Operations \ {"userExistsByEmail"} /\ Unexpected(thrown) # {})
    => ( /\ "error" \in DOMAIN response
         /\ response.error \in GenericMessages
         /\ \A i \in Unexpected(thrown) : ~Includes(response.error, thrown[i].message) )

\* C14: changing a field of a User returned by findAll, findById, findByEmail,
\* findPaginated, create, update or delete never changes a record of the store.
C14_ReturnedUsersAreCopies ==
    [][ call'.op = "writeReturned" => users' = users ]_vars

\* the operations that return an ApiResponse
ApiOperations == Operations \ {"userExistsByEmail"}

\* C15: every ApiResponse a UserService operation returns has either the key
\* error and neither data nor message, or the keys data and message and no error.
C15_OutcomeShape ==
    call.op \in ApiOperations
    => \/ DOMAIN response = {"error"}
       \/ DOMAIN response = {"data", "message"}

\* getAllUsers returned only an error because findAll threw
C15_Witness ==
    /\ call.op = "getAllUsers"
    /\ RepositoryThrew(thrown)
    /\ DOMAIN response = {"error"}

\* the calls UserController answers with a status derived from the outcome
Handled == {"createUser", "updateUser", "deleteUser", "getUserById"}

\* no live user of the store us has the id
NotLive(us, id) == \A i \in 1..Len(us) : us[i].id # id

\* the call c fails on the store us because its email belongs to another live user
EmailTaken(us, c) ==
    \/ /\ c.op = "createUser"
       /\ ValidateCreateDto(c.dto) = <<>>
       /\ \E i \in 1..Len(us) : us[i].email = c.dto.email
    \/ /\ c.op = "updateUser"
       /\ ~IsBlank(c.id)
       /\ ValidateUpdateDto(c.dto) = <<>>
       /\ ~NotLive(us, c.id)
       /\ "email" \in DOMAIN c.dto
       /\ OthersWithEmail(us, c.id, c.dto.email) # {}

\* the call c names an id that is not live in us
NamesNoLiveUser(us, c) ==
    /\ c.op \in {"updateUser", "deleteUser", "getUserById"}
    /\ NotLive(us, c.id)

\* ... and gets as far as looking the id up: the id is not blank and the patch
\* of an updateUser passes validation
LooksUpNoLiveUser(us, c) ==
    /\ NamesNoLiveUser(us, c)
    /\ ~IsBlank(c.id)
    /\ c.op = "updateUser" => ValidateUpdateDto(c.dto) = <<>>

\* the status the claim gives the outcome resp of call c, notFound telling
\* which calls count as naming a missing user
StatusFor(c, resp, taken, notFound) ==
    IF "error" \in DOMAIN resp
    THEN IF taken THEN 409 ELSE IF notFound THEN 404 ELSE 400
    ELSE IF c.op = "createUser" THEN 201 ELSE 200

CreatedTasks ==
    {k \in 1..Len(tasks) : /\ tasks[k].op = "createUser"
                           /\ tasks[k].pc = "settled"
                           /\ ~ HasError(tasks[k].response)}

\* C17: when createUser and updateUser calls are in flight at once and interleave
\* at their awaits, no two createUser calls with the same email both succeed and
\* no two live users share an email.
C17_InFlightCallsSerialized ==
    /\ \A a, b \in CreatedTasks : tasks[a].dto.email = tasks[b].dto.email => a = b
    /\ \A i, j \in 1..Len(users) : i < j => users[i].email # users[j].email

\* the step is addConnection(s), alone or as the first thing the open handler does
Adds(s) == call'.op \in {"addConnection", "ws.open"} /\ call'.ws = s

\* the call that led to the next state sent to one sink only
Unicast == call'.op \in {"sendToConnection", "ws.open", "ws.message"}

\* the send to s of the call that led to the next state threw
SendToFailed(s) == \E i \in 1..Len(sends') : sends'[i].ws = s /\ ~sends'[i].ok

\* C18: after removeConnection(s), and after a failed send to s by broadcast,
\* broadcastMessage or sendToConnection, s is not in the active set; a sink that
\* is not in the set stays out and is sent no broadcast until addConnection(s).
C18_EvictedUntilAdded ==
    [][ \A s \in Sockets :
          /\ (call'.op = "removeConnection" /\ call'.ws = s)
                => s \notin Members(connections')
          /\ SendToFailed(s) => s \notin Members(connections')
          /\ (s \notin Members(connections) /\ ~Adds(s))
                => /\ s \notin Members(connections')
                   /\ (\E i \in 1..Len(sends') : sends'[i].ws = s) => Unicast ]_vars

\* broadcastMessage went to three sinks; the send to the first threw, and that
\* sink is out of the set while the two others remain
C18_Witness ==
    /\ call.op = "broadcastMessage"
    /\ Len(sends) = 3
    /\ ~sends[1].ok /\ sends[2].ok /\ sends[3].ok
    /\ connections = <<sends[2].ws, sends[3].ws>>

\* C19: closeAllConnections() attempts close once on every sink of the active
\* set, goes on after a close that throws, does not raise, and leaves the set
\* empty, getConnectionCount() = 0, whatever the closes did.
C19_CloseAllClosesEachOnce ==
    [][ call'.op = "closeAllConnections"
        => ( /\ Len(closes') = Len(connections)
             /\ \A ws \in Members(connections) :
                   Cardinality({i \in 1..Len(closes') : closes'[i].ws = ws}) = 1
             /\ response' = NoResponse
             /\ connections' = <<>>
             /\ GetConnectionCount(connections') = 0 ) ]_vars

\* three sinks were closed; the close of the first threw and the others followed
C19_Witness ==
    /\ call.op = "closeAllConnections"
    /\ Len(closes) = 3
    /\ ~closes[1].ok /\ closes[2].ok /\ closes[3].ok
    /\ connections = <<>>

\* C20: sendToConnection(s, message) returns true and leaves the active set as it
\* was when the send succeeds; when the send throws it returns false, removes s,
\* keeps every other sink, and does not raise.
C20_SendToConnectionOutcome ==
    [][ call'.op = "sendToConnection"
        => ( /\ Len(sends') = 1 /\ sends'[1].ws = call'.ws
             /\ sends'[1].ok
                   => (response' = [value |-> TRUE] /\ connections' = connections)
             /\ ~sends'[1].ok
                   => ( /\ response' = [value |-> FALSE]
                        /\ call'.ws \notin Members(connections')
                        /\ Members(connections') = Members(connections) \ {call'.ws} ) ) ]_vars

\* a send to a member threw: false came back and the two other sinks remain
C20_Witness ==
    /\ call.op = "sendToConnection"
    /\ response = [value |-> FALSE]
    /\ Len(connections) = 2
    /\ call.ws \notin Members(connections)
    /\ closes = <<>> /\ ~sends[1].ok

\* C21: addConnection of a sink that is in the active set, and removeConnection
\* of one that is not, leave the set and getConnectionCount() as they were; a
\* second identical call right after the first changes nothing more.
C21_AddRemoveIdempotent ==
    [][ /\ (call'.op = "addConnection" /\ call'.ws \in Members(connections))
              => ( /\ connections' = connections
                   /\ GetConnectionCount(connections') = GetConnectionCount(connections) )
        /\ (call'.op = "removeConnection" /\ call'.ws \notin Members(connections))
              => ( /\ connections' = connections
                   /\ GetConnectionCount(connections') = GetConnectionCount(connections) )
        /\ (call'.op \in {"addConnection", "removeConnection"} /\ call' = call)
              => connections' = connections ]_vars

\* addConnection was called for the oldest of three members: a sink added now
\* would be the newest
C21_Witness ==
    /\ call.op = "addConnection"
    /\ Len(connections) = 3
    /\ connections[1] = call.ws
    /\ GetConnectionCount(connections) = Cardinality(Members(connections))

\* C22: after deleteUser succeeded on the only live user with email E, a
\* createUser with a valid name and email E succeeds, and the new record's id
\* differs from the deleted one: no id of a deleted user is handed out again.
C22_EmailFreeAfterDelete ==
    [][ /\ ( /\ call.op = "deleteUser" /\ "data" \in DOMAIN response
             /\ call'.op = "createUser" /\ ValidPair(call'.dto)
             /\ call'.dto.email = response.data.email
             /\ \A i \in 1..Len(users) : users[i].email # response.data.email )
           => ( /\ "data" \in DOMAIN response'
                /\ response'.data.email = response.data.email
                /\ response'.data.id # response.data.id
                /\ \E i \in 1..Len(users') : users'[i].id = response'.data.id )
        /\ (call'.op = "createUser" /\ "data" \in DOMAIN response')
           => response'.data.id \notin deletedIds ]_vars

\* the first created user was deleted, and a second createUser with the same
\* email has just succeeded
C22_Witness ==
    /\ call.op = "createUser" /\ Succeeded
    /\ RandomUUID(1) \in deletedIds
    /\ response.data.id = RandomUUID(2)
    /\ \E i \in 1..Len(users) : users[i].id = RandomUUID(2) /\ users[i].email = call.dto.email

\* the ids of a list of users, in the order of the list
IdsOf(us) == [i \in 1..Len(us) |-> us[i].id]

\* C23: findAll() returns every live user once, in insertion order: a created
\* user goes after all existing users, an update keeps every user at its
\* position, and a delete removes one user and keeps the order of the others.
C23_InsertionOrder ==
    [][ /\ (call'.op = "createUser" /\ "data" \in DOMAIN response')
              => IdsOf(users') = Append(IdsOf(users), response'.data.id)
        /\ (call'.op = "updateUser" /\ "data" \in DOMAIN response')
              => IdsOf(users') = IdsOf(users)
        /\ (call'.op = "deleteUser" /\ "data" \in DOMAIN response')
              => /\ IdsOf(users') = SelectSeq(IdsOf(users), LAMBDA x : x # call'.id)
                 /\ Len(users') = Len(users) - 1
        /\ (call'.op = "getAllUsers" /\ "data" \in DOMAIN response')
              => /\ response'.data = users
                 /\ \A i, j \in 1..Len(response'.data) :
                       response'.data[i].id = response'.data[j].id => i = j ]_vars

\* getAllUsers after the second seeded user was deleted and a user was created:
\* the remaining seeded users come first, the created user last
C23_Witness ==
    /\ call.op = "getAllUsers" /\ Succeeded
    /\ IdsOf(response.data) = <<"1", "3", RandomUUID(1)>>
    /\ "2" \in deletedIds

\* the record with the given id in a list of users that holds it
RecordOf(us, id) == us[FindIndexById(us, id)]

\* C24: the User that create, update and delete return, which the broadcast
\* event carries, equals field for field, updatedAt included, the record as
\* stored after create or update and as stored right before removal for delete;
\* for create the returned createdAt equals the returned updatedAt.  The clock
\* may advance between two readings.
C24_ReturnedEqualsStored ==
    [][ /\ (call'.op = "createUser" /\ "data" \in DOMAIN response')
              => /\ response'.data = RecordOf(users', response'.data.id)
                 /\ response'.data.createdAt = response'.data.updatedAt
        /\ (call'.op = "updateUser" /\ "data" \in DOMAIN response')
              => response'.data = RecordOf(users', call'.id)
        /\ (call'.op = "deleteUser" /\ "data" \in DOMAIN response')
              => response'.data = RecordOf(users, call'.id)
        /\ (call'.op \in Mutations /\ "data" \in DOMAIN response')
              => \A k \in 1..Len(events') : events'[k].user = response'.data ]_vars

\* C25: a successful updateUser(id, patch) changes, in the record with that id,
\* only the fields present in patch and updatedAt; its id and createdAt, a field
\* absent from patch, and every other record stay as they were.
C25_UpdateFrame ==
    [][ (call'.op = "updateUser" /\ "data" \in DOMAIN response')
        => LET k == FindIndexById(users, call'.id)
           IN  /\ k # 0
               /\ Len(users') = Len(users)
               /\ \A i \in 1..Len(users) : i # k => users'[i] = users[i]
               /\ DOMAIN users'[k] = DOMAIN users[k]
               /\ users'[k].id = users[k].id
               /\ users'[k].createdAt = users[k].createdAt
               /\ \A f \in {"name", "email"} \ DOMAIN call'.dto : users'[k][f] = users[k][f]
               /\ \A f \in DOMAIN call'.dto : users'[k][f] = call'.dto[f] ]_vars

\* an update that set both the name and the email of a created user
C25_Witness ==
    /\ call.op = "updateUser" /\ Succeeded
    /\ DOMAIN call.dto = {"name", "email"}
    /\ call.id = RandomUUID(1)
    /\ RecordOf(users, call.id).email = call.dto.email
    /\ RecordOf(users, call.id).name = call.dto.name

\* task k is an updateUser or deleteUser whose findById found the user, and the
\* record is gone from the store before the call goes on
GoneSinceCheck(k) ==
    /\ tasks[k].pc \in {"updateUser: await findById", "deleteUser: await findById"}
    /\ tasks[k].existingUser # Null
    /\ FindIndexById(users, tasks[k].id) = 0

\* task k is suspended at its store call, which found no record
StoreFoundNothing(k) ==
    \/ tasks[k].pc = "updateUser: await update"
          /\ ~tasks[k].updated.threw /\ tasks[k].updated.value = Null
    \/ tasks[k].pc = "deleteUser: await delete" /\ tasks[k].deleted.value = Null

\* the settled deleteUser calls that resolved to a success
DeletedTasks ==
    {k \in 1..Len(tasks) : /\ tasks[k].op = "deleteUser"
                           /\ tasks[k].pc = "settled"
                           /\ ~ HasError(tasks[k].response)}

\* C26: when another in-flight call removes the record between the findById of
\* updateUser or deleteUser and its store call, the call returns an error,
\* passes no event to broadcast and changes no record; of the in-flight
\* deleteUser calls for one id at most one succeeds and emits a deleted event.
C26_RemovedSinceCheck ==
    [][ /\ \A k \in 1..Len(tasks) :
              /\ (GoneSinceCheck(k) /\ tasks'[k] # tasks[k])
                    => (users' = users /\ events' = events /\ StoreFoundNothing(k)')
              /\ (StoreFoundNothing(k) /\ tasks'[k] # tasks[k])
                    => ( /\ tasks'[k].pc = "settled"
                         /\ HasError(tasks'[k].response)
                         /\ response' = tasks'[k].response
                         /\ events' = <<>>
                         /\ users' = users )
        /\ \A a, b \in DeletedTasks' : tasks'[a].id = tasks'[b].id => a = b
        /\ (events' # events /\ events' # <<>> /\ events'[1].type = "deleted")
              => ( /\ Len(events') = 1
                   /\ \E k \in DeletedTasks' :
                         tasks[k].pc # "settled" /\ tasks'[k].id = events'[1].user.id ) ]_vars

\* two in-flight deleteUser calls for one id have settled: one succeeded, the
\* other found the record gone at its store call and returned an error
C26_Witness ==
    \E a, b \in 1..Len(tasks) :
        /\ tasks[a].op = "deleteUser" /\ tasks[b].op = "deleteUser"
        /\ tasks[a].id = tasks[b].id
        /\ tasks[a].pc = "settled" /\ tasks[b].pc = "settled"
        /\ ~ HasError(tasks[a].response)
        /\ tasks[b].response = [error |-> "Failed to delete user"]

\* C27: under any interleaving of a store update(id, patch) whose patch has an
\* email with in-flight delete and create calls, the update writes only to the
\* record whose id is id: it overwrites no other user's record and adds no
\* record to the collection.
C27_UpdateWritesOwnRecord ==
    [][ \A k \in 1..Len(tasks) :
          (tasks[k].pc = "update: await findByEmail" /\ tasks'[k] # tasks[k])
             => /\ Len(users') = Len(users)
                /\ \A i \in 1..Len(users) :
                      users'[i] # users[i] => users[i].id = tasks[k].id ]_vars

ReadOperations ==
    {"getAllUsers", "getUserById", "getUsersPaginated", "getUserStats", "userExistsByEmail"}

\* C28: getAllUsers, getUserById, getUsersPaginated, getUserStats and
\* userExistsByEmail never change the user collection or the active set and pass
\* no event to broadcast, whatever their arguments and outcome; getUserStats
\* reports totalUsers = count() and connectionsCount = the size of the active set.
C28_ReadsChangeNothing ==
    [][ /\ call'.op \in ReadOperations
           => ( /\ users' = users
                /\ connections' = connections
                /\ events' = <<>>
                /\ sends' = <<>> )
        /\ (call'.op = "getUserStats" /\ "data" \in DOMAIN response')
           => ( /\ response'.data.totalUsers = Len(users)
                /\ response'.data.connectionsCount = Cardinality(Members(connections))
                /\ DOMAIN response'.data = {"totalUsers", "connectionsCount"} ) ]_vars

\* getUserStats after a createUser and with two sinks connected
C28_Witness ==
    /\ call.op = "getUserStats"
    /\ Succeeded
    /\ response.data = [totalUsers |-> 4, connectionsCount |-> 2]
    /\ Len(users) = 4 /\ Len(connections) = 2

====
